---- MODULE Spec2Model ----
(***************************************************************************)
(* Model of the build-stage orchestration of alcib (src/main.py and        *)
(* src/lib/hypervisors.py): the artifact download with retry and fallback  *)
(* (download_qcow), the checksum-verified batch upload (upload_to_bucket)  *)
(* and the stage handlers that open a remote session, run remote commands  *)
(* and upload their artifacts.                                             *)
(*                                                                         *)
(* Outcomes of external collaborators (the S3 client, the remote shell,    *)
(* sftp, local subprocesses) are nondeterministic: every call either       *)
(* returns or raises.  Every call is recorded in the history variable log. *)
(***************************************************************************)
EXTENDS Integers, Sequences, FiniteSets, TLC

VARIABLES
    job,        \* the job: hypervisor name, arch, settings.image, OS_MAJOR_VER,
                \* settings.build_number and the day TIMESTAMP was taken
    log,        \* history: every external call made so far, in order
    dl_pc,      \* download_qcow: position ("idle","mkdir","try","sync","returned","raised")
    dl_i,       \* download_qcow: loop variable i of `for i in range(5)`
    work_dir,   \* TRUE iff the local working directory of the job exists
    up_pc,      \* upload_to_bucket: position ("idle","sha","cp","returned","raised")
    up_files,   \* upload_to_bucket: parameter files
    up_i,       \* upload_to_bucket: index (1-based) of the loop variable file
    up_ssh,     \* upload_to_bucket: parameter ssh (name of the session variable)
    up_stdout,  \* upload_to_bucket: stdout of the last sha256sum command (tokens)
    sha256,     \* remote host: the sha256 sum of the content of each file
    m_pc,       \* main: "start", "dispatched", "running", "returned", "raised"
    calls,      \* main: the handler calls of the selected branch still to make
    handler,    \* the handler running: [cls |-> defining class, method |-> name]
    h_pc,       \* the handler running: index of its next instruction
    pending,    \* TRUE iff an exception is propagating through a finally block
    conn,       \* the remote sessions by variable name: "none", "open", "closed"
    opener,     \* the handler that opened the session of each variable name
    have_ip,    \* TRUE iff self._instance_ip is set (get_instance_info has run)
    tf_dir,     \* TRUE iff self.terraform_dir exists
    branch,     \* TRUE iff the release branch al-<version>-<TIMESTAMP> exists
    instances,  \* number of hypervisor objects constructed so far
    faults,     \* number of failures the environment may still produce
                \* (-1: any number)
    diff,       \* create_docker_branch: the lines of the package diff of a conf
    rp_pc,      \* the package report: "idle", "lines", "report", "done", "raised"
    rp_i,       \* the package report: index of the loop variable raw_package
    packages,   \* the package report: the dict packages, in insertion order
    text        \* the package report: the list text of the commit message

dlvars == <<dl_pc, dl_i, work_dir>>
upvars == <<up_pc, up_files, up_i, up_ssh, up_stdout>>
hvars == <<m_pc, calls, handler, h_pc, pending, conn, opener, have_ip, tf_dir,
          branch, instances>>
rpvars == <<diff, rp_pc, rp_i, packages, text>>
vars == <<job, log, dl_pc, dl_i, work_dir, up_pc, up_files, up_i, up_ssh,
          up_stdout, sha256, m_pc, calls, handler, h_pc, pending, conn, opener,
          have_ip, tf_dir, branch, instances, faults, diff, rp_pc, rp_i, packages, text>>

----------------------------------------------------------------------------
(* History events.  One record shape for all calls:                        *)
(*   op   the call ("download_file", "sleep", "s3_sync", "exec", ...)      *)
(*   s    the session variable the call goes through ("" when local)       *)
(*   cmd  the command or the purpose of the call                           *)
(*   idx  position of the file in the batch (0 when not about a file; the  *)
(*        seconds slept for a sleep)                                       *)
(*   file the file the call is about ("" when none)                        *)
(*   ok   TRUE iff the call returned, FALSE iff it raised                  *)
(*   meta the sha256 metadata an upload carries ("" when none)             *)
(*   key  the storage namespace the call reads or writes, or the local     *)
(*        directory it works in (<<>> when none)                           *)

Ev(op, s, cmd, idx, file, ok, meta) ==
    [op |-> op, s |-> s, cmd |-> cmd, idx |-> idx, file |-> file,
     ok |-> ok, meta |-> meta, key |-> <<>>]

\* An event of a call that reads or writes the storage namespace key.
EvKey(op, s, cmd, idx, file, ok, meta, key) ==
    [op |-> op, s |-> s, cmd |-> cmd, idx |-> idx, file |-> file,
     ok |-> ok, meta |-> meta, key |-> key]

Count(P(_)) == Cardinality({k \in 1..Len(log) : P(log[k])})

\* The environment makes an external call fail, within its budget.
Fault == faults # 0 /\ faults' = IF faults > 0 THEN faults - 1 ELSE faults

----------------------------------------------------------------------------
(* The job and its artifact namespace.                                     *)

\* IMAGE = settings.image.replace(" ", "_")
IMAGE(image) ==
    CASE image = "Vagrant Box" -> "Vagrant_Box"
      [] image = "AWS AMI" -> "AWS_AMI"
      [] OTHER -> image

\* TIMESTAMP = str(datetime.date(datetime.today())).replace('-', ''), for
\* today a record of the date and the time of day.
TIMESTAMP(today) == today.date

\* The parts of a string that its "-" characters separate.
SplitDash(str) ==
    CASE str = "aws-stage-2" -> <<"aws", "stage", "2">>
      [] OTHER -> <<str>>

\* The namespace without the architecture.
Namespace_WithoutArch(j) ==
    <<j.build_number, IMAGE(j.image)>> \o SplitDash(j.name) \o <<j.timestamp>>

\* f'{self.build_number}-{IMAGE}-{self.name}-{self.arch}-{TIMESTAMP}', as the
\* parts of the string that its "-" characters separate.
Namespace(j) ==
    <<j.build_number, IMAGE(j.image)>> \o SplitDash(j.name)
    \o <<j.arch, j.timestamp>>

----------------------------------------------------------------------------
(* download_qcow                                                           *)

\* `for i in range(5)`
Attempts == 5
\* Off by one: the fallback after the 4th attempt instead of the 5th.
FallbackIndex_OffByOne == Attempts - 2
\* `if i == 4`
FallbackIndex == 4
\* time.sleep(60)
BackoffSeconds == 60

IsDownload(e) == e.op = "download_file"
IsSync(e) == e.op = "s3_sync"
IsSleep(e) == e.op = "sleep"

\* os.mkdir(work_dir): raises FileExistsError when the directory exists.
DlMkdir ==
    /\ dl_pc = "mkdir"
    /\ IF work_dir
       THEN /\ dl_pc' = "raised"
            /\ log' = Append(log, Ev("mkdir", "", "work_dir", 0, "", FALSE, ""))
            /\ UNCHANGED <<dl_i, work_dir>>
       ELSE /\ work_dir' = TRUE
            /\ dl_i' = 0
            /\ dl_pc' = IF 0 < Attempts THEN "try" ELSE "returned"
            /\ log' = Append(log, Ev("mkdir", "", "work_dir", 0, "", TRUE, ""))
    /\ UNCHANGED <<rpvars, job, faults, sha256, upvars, hvars>>

\* The position after the body of the loop ended for the value i.
DlAfterBody(i) == IF i + 1 < Attempts THEN "try" ELSE "returned"

\* s3_bucket.download_file returned: the try block ends, the loop goes on.
DlAttemptOk ==
    /\ dl_pc = "try"
    /\ log' = Append(log, EvKey("download_file", "", "qcow2", 0, "", TRUE, "", Namespace(job)))
    /\ dl_pc' = DlAfterBody(dl_i)
    /\ dl_i' = dl_i + 1
    /\ UNCHANGED <<work_dir>>
    /\ UNCHANGED <<rpvars, job, faults, sha256, upvars, hvars>>

\* The fallback on every failed attempt (the test `i == 4` left out).
DlAttemptFail_FallbackEachTime ==
    /\ dl_pc = "try"
    /\ Fault
    /\ log' = log \o <<EvKey("download_file", "", "qcow2", 0, "", FALSE, "", Namespace(job)),
                       Ev("sleep", "", "backoff", BackoffSeconds, "", TRUE, "")>>
    /\ dl_pc' = "sync" /\ dl_i' = dl_i
    /\ UNCHANGED <<work_dir>>
    /\ UNCHANGED <<rpvars, job, sha256, upvars, hvars>>

\* s3_bucket.download_file raised: the except block logs, sleeps, and on
\* i == 4 goes on to the fallback sync.
DlAttemptFail ==
    /\ dl_pc = "try"
    /\ Fault
    /\ log' = log \o <<EvKey("download_file", "", "qcow2", 0, "", FALSE, "", Namespace(job)),
                       Ev("sleep", "", "backoff", BackoffSeconds, "", TRUE, "")>>
    /\ IF dl_i = FallbackIndex
       THEN dl_pc' = "sync" /\ dl_i' = dl_i
       ELSE dl_pc' = DlAfterBody(dl_i) /\ dl_i' = dl_i + 1
    /\ UNCHANGED <<work_dir>>
    /\ UNCHANGED <<rpvars, job, sha256, upvars, hvars>>

\* The call raises although the fallback succeeded.
DlSyncOk_Raises ==
    /\ dl_pc = "sync"
    /\ log' = Append(log, EvKey("s3_sync", "", "bucket_path", 0, "", TRUE, "", Namespace(job)))
    /\ dl_pc' = "raised"
    /\ dl_i' = dl_i
    /\ UNCHANGED <<work_dir>>
    /\ UNCHANGED <<rpvars, job, faults, sha256, upvars, hvars>>

\* execute_command('aws s3 sync ...') returned.
DlSyncOk ==
    /\ dl_pc = "sync"
    /\ log' = Append(log, EvKey("s3_sync", "", "bucket_path", 0, "", TRUE, "", Namespace(job)))
    /\ dl_pc' = DlAfterBody(dl_i)
    /\ dl_i' = dl_i + 1
    /\ UNCHANGED <<work_dir>>
    /\ UNCHANGED <<rpvars, job, faults, sha256, upvars, hvars>>

\* The failure of the fallback logged and swallowed (`raise error` left out).
DlSyncFail_Swallowed ==
    /\ dl_pc = "sync"
    /\ Fault
    /\ log' = Append(log, EvKey("s3_sync", "", "bucket_path", 0, "", FALSE, "", Namespace(job)))
    /\ dl_pc' = DlAfterBody(dl_i)
    /\ dl_i' = dl_i + 1
    /\ UNCHANGED <<work_dir>>
    /\ UNCHANGED <<rpvars, job, sha256, upvars, hvars>>

\* execute_command('aws s3 sync ...') raised: logged and raised again.
DlSyncFail ==
    /\ dl_pc = "sync"
    /\ Fault
    /\ log' = Append(log, EvKey("s3_sync", "", "bucket_path", 0, "", FALSE, "", Namespace(job)))
    /\ dl_pc' = "raised"
    /\ UNCHANGED <<dl_i, work_dir>>
    /\ UNCHANGED <<rpvars, job, sha256, upvars, hvars>>

\* The outcomes of the download attempts made so far, in order.
DownloadOutcomes == [k \in 1..Len(SelectSeq(log, IsDownload)) |->
                        SelectSeq(log, IsDownload)[k].ok]
FailedDownloads == Count(LAMBDA e : IsDownload(e) /\ ~e.ok)
SyncCalls == Count(IsSync)
SyncFailed == \E k \in 1..Len(log) : IsSync(log[k]) /\ ~log[k].ok
DlEnded == dl_pc \in {"returned", "raised"}

----------------------------------------------------------------------------
(* upload_to_bucket                                                        *)

\* The files the stages hand to upload_to_bucket: logs, images, manifests.
FileNames == {"build_log", "image", "build_log_2", "image_uefi", "test_log",
              "Dockerfile", "rpm-packages", "rootfs.tar.xz", "amis.csv", "AMIS.md"}
\* The files of the batches explored when upload_to_bucket is called on its own.
BatchFiles == {"build_log", "image", "test_log"}
\* The names of the session variables of the handlers.
SessionVars == {"ssh", "ssh_koji", "ssh_deploy"}
\* The sha256 sums the remote sha256sum may print.
Hashes == {"h1", "h2"}
\* Longest batch of files explored.
MaxFiles == 3

Batches == UNION {[1..n -> BatchFiles] : n \in 0..MaxFiles}

\* stdout of `sha256sum <path>`: the tokens "<sha256>  <path>".
ShaStdout(h, file) == <<h, file>>

\* The last token of the output (the path) taken for the checksum.
Checksum_LastToken(stdout) == stdout[Len(stdout)]

\* checksum = stdout.read().decode().split()[0]
Checksum(stdout) == stdout[1]

\* The position after the body of the loop ended for the file at index i.
UpAfterBody(i) == IF i + 1 <= Len(up_files) THEN "sha" ELSE "returned"

\* upload_to_bucket(builder, files, file_path, ssh) is entered.
UpEnter(files, ssh) ==
    /\ up_files' = files
    /\ up_ssh' = ssh
    /\ up_i' = 1
    /\ up_stdout' = <<>>
    /\ up_pc' = IF Len(files) >= 1 THEN "sha" ELSE "returned"

\* ssh.safe_execute('sha256sum ...') returned.
UpShaOk ==
    /\ up_pc = "sha"
    /\ up_stdout' = ShaStdout(sha256[up_files[up_i]], up_files[up_i])
    /\ log' = Append(log, Ev("exec", up_ssh, "sha256sum", up_i,
                             up_files[up_i], TRUE, sha256[up_files[up_i]]))
    /\ up_pc' = "cp"
    /\ UNCHANGED <<up_files, up_i, up_ssh>>
    /\ UNCHANGED <<rpvars, job, faults, sha256, dlvars, hvars>>

\* The ExecuteError of the checksum command not caught.
UpShaFail_Raises ==
    /\ up_pc = "sha"
    /\ Fault
    /\ log' = Append(log, Ev("exec", up_ssh, "sha256sum", up_i,
                             up_files[up_i], FALSE, ""))
    /\ up_pc' = "raised"
    /\ UNCHANGED <<up_files, up_i, up_ssh, up_stdout>>
    /\ UNCHANGED <<rpvars, job, sha256, dlvars, hvars>>

\* ssh.safe_execute('sha256sum ...') raised ExecuteError: `continue`.
UpShaFail ==
    /\ up_pc = "sha"
    /\ Fault
    /\ log' = Append(log, Ev("exec", up_ssh, "sha256sum", up_i,
                             up_files[up_i], FALSE, ""))
    /\ up_pc' = UpAfterBody(up_i)
    /\ up_i' = up_i + 1
    /\ UNCHANGED <<up_files, up_ssh, up_stdout>>
    /\ UNCHANGED <<rpvars, job, sha256, dlvars, hvars>>

\* ssh.safe_execute('aws s3 cp ... --metadata sha256={checksum}') returned.
UpCpOk ==
    /\ up_pc = "cp"
    /\ log' = Append(log, EvKey("exec", up_ssh, "s3_cp", up_i, up_files[up_i],
                                TRUE, Checksum(up_stdout), Namespace(job)))
    /\ up_pc' = UpAfterBody(up_i)
    /\ up_i' = up_i + 1
    /\ UNCHANGED <<up_files, up_ssh, up_stdout>>
    /\ UNCHANGED <<rpvars, job, faults, sha256, dlvars, hvars>>

\* ssh.safe_execute('aws s3 cp ...') raised ExecuteError: nothing catches it.
UpCpFail ==
    /\ up_pc = "cp"
    /\ Fault
    /\ log' = Append(log, EvKey("exec", up_ssh, "s3_cp", up_i, up_files[up_i],
                                FALSE, Checksum(up_stdout), Namespace(job)))
    /\ up_pc' = "raised"
    /\ UNCHANGED <<up_files, up_i, up_ssh, up_stdout>>
    /\ UNCHANGED <<rpvars, job, sha256, dlvars, hvars>>

IsSha(e) == e.op = "exec" /\ e.cmd = "sha256sum"
IsCp(e) == e.op = "exec" /\ e.cmd = "s3_cp"
UpEnded == up_pc \in {"returned", "raised"}

----------------------------------------------------------------------------
(* The backend classes (get_hypervisor) and their methods.                 *)

\* The keys of the table of get_hypervisor and the class of each.
Registry ==
    [k \in {"hyperv", "virtualbox", "kvm", "vmware_desktop", "aws-stage-2",
            "equinix"} |->
        CASE k = "hyperv" -> "HyperV"
          [] k = "virtualbox" -> "VirtualBox"
          [] k = "kvm" -> "KVM"
          [] k = "vmware_desktop" -> "VMWareDesktop"
          [] k = "aws-stage-2" -> "AwsStage2"
          [] k = "equinix" -> "Equinix"]

\* The choices of --hypervisor.
HypervisorChoices == {"VirtualBox", "KVM", "VMWare_Desktop", "HyperV",
                      "AWS-STAGE-2", "Equinix"}

\* args.hypervisor.lower() for the values --hypervisor accepts.
Lower(hypervisor) ==
    CASE hypervisor = "VirtualBox" -> "virtualbox"
      [] hypervisor = "KVM" -> "kvm"
      [] hypervisor = "VMWare_Desktop" -> "vmware_desktop"
      [] hypervisor = "HyperV" -> "hyperv"
      [] hypervisor = "AWS-STAGE-2" -> "aws-stage-2"
      [] hypervisor = "Equinix" -> "equinix"
      [] OTHER -> hypervisor

\* The base classes of a class, nearest first (the method resolution order).
Mro(cls) ==
    CASE cls = "HyperV" -> <<"HyperV", "BaseHypervisor">>
      [] cls = "VirtualBox" -> <<"VirtualBox", "LinuxHypervisors", "BaseHypervisor">>
      [] cls = "VMWareDesktop" -> <<"VMWareDesktop", "LinuxHypervisors", "BaseHypervisor">>
      [] cls = "KVM" -> <<"KVM", "LinuxHypervisors", "BaseHypervisor">>
      [] cls = "AwsStage2" -> <<"AwsStage2", "KVM", "LinuxHypervisors", "BaseHypervisor">>
      [] cls = "Equinix" -> <<"Equinix", "BaseHypervisor">>
      [] OTHER -> <<>>

\* The methods and class attributes each class defines itself.
Defines(cls) ==
    CASE cls = "BaseHypervisor" ->
            {"download_qcow", "koji_release", "create_aws_instance",
             "teardown_stage", "upload_to_bucket", "release_and_sign_stage",
             "build_stage", "release_stage", "prepare_openstack"}
      [] cls = "LinuxHypervisors" ->
            {"init_stage", "test_stage", "build_docker_stage",
             "create_docker_branch", "clear_ppc64le_host"}
      [] cls = "HyperV" -> {"packer_build_cmd", "init_stage", "test_stage"}
      [] cls = "VirtualBox" -> {"packer_build_cmd"}
      [] cls = "VMWareDesktop" -> {"packer_build_cmd"}
      [] cls = "KVM" ->
            {"packer_build_cmd", "packer_build_gencloud", "packer_build_gencloud2",
             "packer_build_opennebula", "packer_build_opennebula2",
             "publish_ami", "build_aws_stage", "test_aws_stage", "test_openstack"}
      [] cls = "AwsStage2" -> {"build_aws_stage"}
      [] cls = "Equinix" ->
            {"packer_build_opennebula", "packer_build_gencloud", "init_stage",
             "build_stage", "test_openstack", "teardown_equinix_stage"}
      [] OTHER -> {}

\* The class whose definition of attr an object of class cls uses, "" when
\* no class of its resolution order defines it (AttributeError).
Resolve(cls, attr) ==
    LET owners == SelectSeq(Mro(cls), LAMBDA c : attr \in Defines(c))
    IN  IF owners = <<>> THEN "" ELSE owners[1]

HasAttr(cls, attr) == Resolve(cls, attr) # ""

----------------------------------------------------------------------------
(* Instructions: the calls of a handler that reach outside the process, in *)
(* the order the handler makes them, with its try/finally blocks.          *)
(*   connect  builder.ssh_aws_connect / ssh_remote_connect into variable s *)
(*   ip       the property self.instance_ip / self.instance_id             *)
(*   exec     s.safe_execute(cmd): returns or raises ExecuteError          *)
(*   execpass s.safe_execute(cmd) inside try/except Exception: logged only *)
(*   sftp     an sftp transfer over s: returns or raises                   *)
(*   local    a local call (subprocess, HTTP request, file): may raise     *)
(*   localpass a local call inside try/except Exception: logged only       *)
(*   raise    a statement that always raises (AttributeError, TypeError)   *)
(*   upload   self.upload_to_bucket(builder, files, path, s)               *)
(*   download self.download_qcow()                                         *)
(*   close    s.close()                                                    *)
(*   try, finally, endfinally   the blocks of a try/finally statement      *)

(*   info     logging.info of a message (never raises)                     *)
(*   jump     the end of an if branch: the next n instructions (the else   *)
(*            branch) are skipped                                          *)
(*   unless_exists / if_exists   `if os.path.exists(...)` and `if ... not  *)
(*            in branches`: the next n instructions are skipped when the   *)
(*            directory is absent / the branch exists                      *)

Ins(op, s, cmd) ==
    [op |-> op, s |-> s, cmd |-> cmd, files |-> <<>>, n |-> 0, dir |-> <<>>]
Guard(op, cmd, n) ==
    [op |-> op, s |-> "", cmd |-> cmd, files |-> <<>>, n |-> n, dir |-> <<>>]
Connect(s) == Ins("connect", s, "connect")
InstanceIp == Ins("ip", "", "get_instance_info")
Exec(s, cmd) == Ins("exec", s, cmd)
ExecPass(s, cmd) == Ins("execpass", s, cmd)
Sftp(s, cmd) == Ins("sftp", s, cmd)
Local(cmd) == Ins("local", "", cmd)
\* A local call that works in the directory dir.
LocalIn(cmd, dir) ==
    [op |-> "local", s |-> "", cmd |-> cmd, files |-> <<>>, n |-> 0, dir |-> dir]
\* logging.info of a message the caller can observe.
Info(cmd) == Ins("info", "", cmd)
LocalPass(cmd) == Ins("localpass", "", cmd)
Raise(cmd) == Ins("raise", "", cmd)
Upload(s, files) ==
    [op |-> "upload", s |-> s, cmd |-> "upload_to_bucket", files |-> files, n |-> 0,
     dir |-> <<>>]
Download == Ins("download", "", "download_qcow")
Close(s) == Ins("close", s, "close")
Try == Ins("try", "", "")
Finally == Ins("finally", "", "")
EndFinally == Ins("endfinally", "", "")

\* The property terraform_dir of a backend with the given name and arch.
terraform_dir(name, arch) ==
    IF arch = "aarch64" THEN <<"terraform", "aarch64">> ELSE <<"terraform", name>>

\* self.<attr> of an object of class cls: nothing when the class has the
\* attribute, an AttributeError when it has not.
Attr(cls, attr) == IF HasAttr(cls, attr) THEN <<>> ELSE <<Raise(attr)>>

\* The second build pass for every version of GenericCloud.
build_stage_SecondPassForAnyVersion(cls, image, ver) ==
    LET second == image = "GenericCloud"
        template ==
            IF image = "GenericCloud"
            THEN Attr(cls, "packer_build_gencloud") \o Attr(cls, "packer_build_gencloud2")
            ELSE IF image = "OpenNebula"
                 THEN IF ver = "8" THEN Attr(cls, "packer_build_opennebula")
                                   ELSE Attr(cls, "packer_build_opennebula2")
                 ELSE Attr(cls, "packer_build_cmd")
        files == <<"build_log", "image">> \o
                 (IF second THEN <<"build_log_2", "image_uefi">> ELSE <<>>)
    IN  <<InstanceIp, Connect("ssh"), Exec("ssh", "packer_init")>>
        \o template
        \o <<Try, Exec("ssh", "build"), Sftp("ssh", "sftp_download_build_log")>>
        \o (IF second
            THEN <<Exec("ssh", "build_2"), Sftp("ssh", "sftp_download_build_log_2")>>
            ELSE <<>>)
        \o <<Finally, Upload("ssh", files), EndFinally, Close("ssh")>>

\* BaseHypervisor.build_stage
build_stage(cls, image, ver) ==
    LET second == image = "GenericCloud" /\ ver = "8"
        template ==
            IF image = "GenericCloud"
            THEN Attr(cls, "packer_build_gencloud") \o Attr(cls, "packer_build_gencloud2")
            ELSE IF image = "OpenNebula"
                 THEN IF ver = "8" THEN Attr(cls, "packer_build_opennebula")
                                   ELSE Attr(cls, "packer_build_opennebula2")
                 ELSE Attr(cls, "packer_build_cmd")
        files == <<"build_log", "image">> \o
                 (IF second THEN <<"build_log_2", "image_uefi">> ELSE <<>>)
    IN  <<InstanceIp, Connect("ssh"), Exec("ssh", "packer_init")>>
        \o template
        \o <<Try, Exec("ssh", "build"), Sftp("ssh", "sftp_download_build_log")>>
        \o (IF second
            THEN <<Exec("ssh", "build_2"), Sftp("ssh", "sftp_download_build_log_2")>>
            ELSE <<>>)
        \o <<Finally, Upload("ssh", files), EndFinally, Close("ssh")>>

\* Equinix.build_stage
equinix_build_stage(cls, image) ==
    <<Connect("ssh"), Exec("ssh", "packer_init")>>
    \o (IF image = "GenericCloud" THEN Attr(cls, "packer_build_gencloud")
                                  ELSE Attr(cls, "packer_build_opennebula"))
    \o <<Try, Exec("ssh", "build"), Finally,
         Upload("ssh", <<"build_log", "image">>), EndFinally,
         Sftp("ssh", "sftp_download_build_log"), Close("ssh")>>

\* The session closed at the end of the try block, before the finally block
\* uploads the log.
test_stage_ClosedBeforeCleanup ==
    <<InstanceIp, Connect("ssh"), Exec("ssh", "vagrant_up"),
      Exec("ssh", "vagrant_ssh_config"),
      Try, Exec("ssh", "test"), Sftp("ssh", "sftp_download_test_log"),
      Close("ssh"), Finally, Upload("ssh", <<"test_log">>), EndFinally>>

\* LinuxHypervisors.test_stage and HyperV.test_stage (the same calls; the
\* command texts differ)
test_stage ==
    <<InstanceIp, Connect("ssh"), Exec("ssh", "vagrant_up"),
      Exec("ssh", "vagrant_ssh_config"),
      Try, Exec("ssh", "test"), Sftp("ssh", "sftp_download_test_log"),
      Finally, Upload("ssh", <<"test_log">>), EndFinally, Close("ssh")>>

\* BaseHypervisor.release_stage
release_stage ==
    <<InstanceIp, Connect("ssh"), Exec("ssh", "sha256sum_box"),
      Local("vagrant_get_or_create_version"), Local("vagrant_post_provider"),
      Local("vagrant_get_upload_path"), Exec("ssh", "curl_upload_box"),
      Close("ssh")>>

\* The connection that build_docker_stage and create_docker_branch open.
docker_connect(arch) ==
    IF arch = "ppc64le" THEN <<Connect("ssh")>> ELSE <<InstanceIp, Connect("ssh")>>

DockerFiles == <<"build_log", "Dockerfile", "rpm-packages", "rootfs.tar.xz">>

\* The body of `for conf in docker_list` of build_docker_stage, once.
docker_build_conf ==
    <<Exec("ssh", "git_pull"), Try, Exec("ssh", "build"),
      Sftp("ssh", "sftp_download_build_log"), Upload("ssh", DockerFiles)>>
    \o [k \in 1..Len(DockerFiles) |-> Exec("ssh", "cp_to_docker_tmp")]
    \o <<Exec("ssh", "mv_rpm_packages"), Finally, EndFinally>>

RECURSIVE Repeat(_, _)
Repeat(body, n) == IF n = 0 THEN <<>> ELSE body \o Repeat(body, n - 1)

\* LinuxHypervisors.build_docker_stage
build_docker_stage(arch, docker_list) ==
    docker_connect(arch)
    \o <<Local("github_merge_upstream"), Exec("ssh", "mkdir_chown"),
         Sftp("ssh", "open_sftp"), Sftp("ssh", "put_aws_key"),
         Sftp("ssh", "put_ssh_config"), Sftp("ssh", "put_aws_credentials"),
         Sftp("ssh", "put_aws_config"), Local("get_git_branches"),
         Local("github_merge_upstream"), Exec("ssh", "git_clone")>>
    \o Repeat(docker_build_conf, Len(docker_list))
    \o <<Close("ssh")>>

\* The second backend constructed at the start of the handler.
kvm_build_aws_stage_ConstructFirst(arch) ==
    <<Ins("construct", "", "AwsStage2"), InstanceIp, Connect("ssh"),
      Exec("ssh", "packer_init"),
      Try, Exec("ssh", "build"), Finally, Upload("ssh", <<"build_log">>),
      EndFinally, Sftp("ssh", "sftp_download_build_log"), Local("save_ami_id"),
      LocalIn("write_tfvars", terraform_dir("aws-stage-2", arch)),
      Sftp("ssh", "open_sftp"), Sftp("ssh", "get_userdata"), Close("ssh")>>

\* The hand-off file written into the terraform directory of the KVM backend
\* itself (self.terraform_dir).
kvm_build_aws_stage_WritesOwnDir(arch) ==
    <<InstanceIp, Connect("ssh"), Exec("ssh", "packer_init"),
      Try, Exec("ssh", "build"), Finally, Upload("ssh", <<"build_log">>),
      EndFinally, Sftp("ssh", "sftp_download_build_log"), Local("save_ami_id"),
      Ins("construct", "", "AwsStage2"),
      LocalIn("write_tfvars", terraform_dir("kvm", arch)),
      Sftp("ssh", "open_sftp"), Sftp("ssh", "get_userdata"), Close("ssh")>>

\* The packer command of KVM.build_aws_stage and the rest of the handler.
kvm_build_aws_stage(arch) ==
    <<InstanceIp, Connect("ssh"), Exec("ssh", "packer_init"),
      Try, Exec("ssh", "build"), Finally, Upload("ssh", <<"build_log">>),
      EndFinally, Sftp("ssh", "sftp_download_build_log"), Local("save_ami_id"),
      Ins("construct", "", "AwsStage2"),
      LocalIn("write_tfvars", terraform_dir("aws-stage-2", arch)),
      Sftp("ssh", "open_sftp"), Sftp("ssh", "get_userdata"), Close("ssh")>>

\* AwsStage2.build_aws_stage
aws2_build_aws_stage ==
    <<InstanceIp, Connect("ssh"), Exec("ssh", "packer_init"),
      Try, Exec("ssh", "build"), Local("save_ami_id"), Finally, EndFinally,
      Exec("ssh", "sha256sum_build_log"), Sftp("ssh", "sftp_download_build_log"),
      LocalPass("s3_upload_file"), Close("ssh")>>

\* KVM.test_aws_stage
test_aws_stage(ver) ==
    <<InstanceIp, Connect("ssh"), Sftp("ssh", "open_sftp"),
      Sftp("ssh", "put_aws_key"), Exec("ssh", "chmod_ssh")>>
    \o (IF ver = "9" THEN <<Exec("ssh", "sed_tf")>> ELSE <<>>)
    \o <<Exec("ssh", "mkdir_aws"), Sftp("ssh", "open_sftp"),
         Sftp("ssh", "put_aws_credentials"), Sftp("ssh", "put_aws_config"),
         Exec("ssh", "terraform_init"), Exec("ssh", "terraform_fmt"),
         Exec("ssh", "terraform_validate"), Exec("ssh", "terraform_apply"),
         Exec("ssh", "terraform_output"), Local("json_loads"),
         Local("wait_instance_ready"),
         Try, Exec("ssh", "test"), Finally, Upload("ssh", <<"test_log">>),
         EndFinally, Sftp("ssh", "sftp_download_test_log"),
         Exec("ssh", "terraform_destroy"), Close("ssh")>>

\* BaseHypervisor.prepare_openstack
prepare_openstack(ver) ==
    (IF ver = "9" THEN <<Exec("ssh", "sed_tf")>> ELSE <<>>)
    \o <<Exec("ssh", "cp_image"),
         Exec("ssh", "upload_image_terraform_init"),
         Exec("ssh", "upload_image_terraform_fmt"),
         Exec("ssh", "upload_image_terraform_validate"),
         Exec("ssh", "upload_image_terraform_apply"),
         Exec("ssh", "terraform_init"), Exec("ssh", "terraform_fmt"),
         Exec("ssh", "terraform_validate"), Exec("ssh", "terraform_apply")>>

\* The try/finally of KVM.test_openstack and Equinix.test_openstack.
test_openstack_tail ==
    <<Try, Exec("ssh", "test"), Finally, Upload("ssh", <<"test_log">>),
      Sftp("ssh", "sftp_download_test_log"), Exec("ssh", "terraform_destroy"),
      Exec("ssh", "upload_image_terraform_destroy"), EndFinally, Close("ssh")>>

\* KVM.test_openstack
kvm_test_openstack(ver) ==
    <<Local("generate_clouds"), InstanceIp, Connect("ssh"),
      Sftp("ssh", "open_sftp"), Exec("ssh", "mkdir_openstack"),
      Sftp("ssh", "put_aws_key"), Exec("ssh", "chmod_ssh"),
      Sftp("ssh", "write_clouds_yaml")>>
    \o prepare_openstack(ver) \o test_openstack_tail

\* Equinix.test_openstack
equinix_test_openstack(ver) ==
    <<Local("generate_clouds"), Connect("ssh"), Sftp("ssh", "open_sftp"),
      Sftp("ssh", "put_aws_key"), Exec("ssh", "chmod_ssh"),
      Exec("ssh", "mkdir_openstack"), Sftp("ssh", "write_clouds_yaml")>>
    \o prepare_openstack(ver) \o test_openstack_tail

\* BaseHypervisor.create_aws_instance
create_aws_instance(name, arch) ==
    LET dir == terraform_dir(name, arch)
    IN  (IF arch = "aarch64" THEN <<Ins("copytree", "", "terraform_dir")>> ELSE <<>>)
        \o <<LocalIn("terraform_init", dir), LocalIn("terraform_fmt", dir),
             LocalIn("terraform_validate", dir), LocalIn("terraform_apply", dir)>>

\* LinuxHypervisors.init_stage
init_stage(name, arch, image) ==
    (IF image = "Docker" /\ arch = "ppc64le"
     THEN <<>>
     ELSE create_aws_instance(name, arch) \o <<InstanceIp, Local("wait_instance_ready")>>)
    \o <<Local("write_ansible_hosts"), Local("ansible_run")>>

\* HyperV.init_stage
hyperv_init_stage(name, arch) ==
    create_aws_instance(name, arch)
    \o <<InstanceIp, Local("wait_instance_ready"), Local("write_ansible_hosts"),
         Local("ansible_galaxy_install"), Local("ansible_run")>>

\* Equinix.init_stage
equinix_init_stage ==
    <<Connect("ssh"), Exec("ssh", "git_clone"), Close("ssh")>>

\* The directory of aarch64 is left in place after the destroy.
teardown_stage_KeepsDir(name, arch) ==
    LET body == <<LocalIn("terraform_destroy", terraform_dir(name, arch)),
                  Guard("jump", "else", 1)>>
    IN  <<Guard("unless_exists", "terraform_dir", Len(body))>> \o body
        \o <<Info("destroy_already_completed")>>

\* The destroy issued whether the directory exists or not.
teardown_stage_Unguarded(name, arch) ==
    <<LocalIn("terraform_destroy", terraform_dir(name, arch))>> \o
    (IF arch = "aarch64" THEN <<Ins("rmtree", "", "terraform_dir")>> ELSE <<>>)

\* BaseHypervisor.teardown_stage: the destroy only when terraform_dir
\* exists, else the message that the destroy is already completed.
teardown_stage(name, arch) ==
    LET body == <<LocalIn("terraform_destroy", terraform_dir(name, arch))>> \o
                (IF arch = "aarch64" THEN <<Ins("rmtree", "", "terraform_dir")>>
                                     ELSE <<>>) \o
                <<Guard("jump", "else", 1)>>
    IN  <<Guard("unless_exists", "terraform_dir", Len(body))>> \o body
        \o <<Info("destroy_already_completed")>>

\* Equinix.teardown_equinix_stage
teardown_equinix_stage ==
    <<Connect("ssh"), Exec("ssh", "rm_cloud_images"), Close("ssh")>>

\* LinuxHypervisors.clear_ppc64le_host: a static method with the parameters
\* (self, builder), called as hypervisor.clear_ppc64le_host(builder).
clear_ppc64le_host == <<Raise("TypeError")>>

\* KVM.publish_ami
publish_ami ==
    <<Local("read_ami_id"), InstanceIp, Connect("ssh"),
      Exec("ssh", "aws_ami_mirror"), Upload("ssh", <<"amis.csv", "AMIS.md">>),
      Sftp("ssh", "sftp_download_csv"), Sftp("ssh", "sftp_download_md"),
      Close("ssh")>>

\* The session to the deploy host opened while the one to koji is open.
koji_release_DeployBeforeClose ==
    <<Connect("ssh_koji"), ExecPass("ssh_koji", "ln_latest"),
      ExecPass("ssh_koji", "sha256sum_images"), Exec("ssh_koji", "awk_checksum"),
      Local("sign_request"), Local("asc_content"),
      Sftp("ssh_koji", "upload_signature"), Exec("ssh_koji", "rsync"),
      Connect("ssh_deploy"), Close("ssh_koji"),
      Exec("ssh_deploy", "systemctl_start"), Close("ssh_deploy")>>

\* The rsync to the deploy host before the signature is there.
koji_release_RsyncFirst ==
    <<Connect("ssh_koji"), ExecPass("ssh_koji", "ln_latest"),
      ExecPass("ssh_koji", "sha256sum_images"), Exec("ssh_koji", "awk_checksum"),
      Exec("ssh_koji", "rsync"),
      Local("sign_request"), Local("asc_content"),
      Sftp("ssh_koji", "upload_signature"),
      Close("ssh_koji"), Connect("ssh_deploy"),
      Exec("ssh_deploy", "systemctl_start"), Close("ssh_deploy")>>

\* BaseHypervisor.koji_release
koji_release ==
    <<Connect("ssh_koji"), ExecPass("ssh_koji", "ln_latest"),
      ExecPass("ssh_koji", "sha256sum_images"), Exec("ssh_koji", "awk_checksum"),
      Local("sign_request"), Local("asc_content"),
      Sftp("ssh_koji", "upload_signature"), Exec("ssh_koji", "rsync"),
      Close("ssh_koji"), Connect("ssh_deploy"),
      Exec("ssh_deploy", "systemctl_start"), Close("ssh_deploy")>>

\* BaseHypervisor.release_and_sign_stage
release_and_sign_stage ==
    <<Download, Local("scp"), Try>> \o koji_release
    \o <<Finally, Ins("rmtree", "", "work_dir"), EndFinally>>

\* The branch created without looking at the branches there are.
create_new_branch_Unconditional ==
    <<Local("get_git_branches"), Local("github_get_refs"),
      Ins("create_branch", "", "github_post_ref")>>

\* create_new_branch of main.py: the branch is created only when absent.
create_new_branch ==
    LET body == <<Local("github_get_refs"), Ins("create_branch", "", "github_post_ref")>>
    IN  <<Local("get_git_branches"),
          Guard("if_exists", "branch", Len(body))>> \o body

\* docker_list after `docker_list.remove('micro')`
WithoutMicro(docker_list) == SelectSeq(docker_list, LAMBDA c : c # "micro")

\* LinuxHypervisors.create_docker_branch, with one added package in the
\* diff of each configuration (one changelog query).
create_docker_branch(arch, docker_list) ==
    docker_connect(arch)
    \o Repeat(<<Exec("ssh", "git_diff"), Exec("ssh", "untar_rootfs"),
                Exec("ssh", "rpm_changelog")>>, Len(WithoutMicro(docker_list)))
    \o <<Exec("ssh", "git_checkout")>>
    \o Repeat(<<Exec("ssh", "cp_to_docker_tmp")>>, Len(WithoutMicro(docker_list)))
    \o <<Exec("ssh", "git_commit_push")>>

\* almalinux_wiki_pr of main.py
almalinux_wiki_pr ==
    <<Local("github_merge_upstream"), Local("rewrite_md"), Local("read_md_csv"),
      Local("github_get_md"), Local("github_get_csv"), Local("github_put_md"),
      Local("github_put_csv"), Local("github_post_pull")>>

\* The functions of main.py that main calls like handlers.
MainFunctions == {"create_new_branch", "almalinux_wiki_pr"}

\* The instructions of the method `method` as class `owner` defines it, for
\* an object of class cls and the job j.
Program(owner, method, cls, j) ==
    CASE method = "build_stage" /\ owner = "BaseHypervisor" -> build_stage(cls, j.image, j.ver)
      [] method = "build_stage" /\ owner = "Equinix" -> equinix_build_stage(cls, j.image)
      [] method = "test_stage" -> test_stage
      [] method = "release_stage" -> release_stage
      [] method = "build_docker_stage" -> build_docker_stage(j.arch, j.docker_list)
      [] method = "create_docker_branch" -> create_docker_branch(j.arch, j.docker_list)
      [] method = "build_aws_stage" /\ owner = "KVM" -> kvm_build_aws_stage(j.arch)
      [] method = "build_aws_stage" /\ owner = "AwsStage2" -> aws2_build_aws_stage
      [] method = "test_aws_stage" -> test_aws_stage(j.ver)
      [] method = "test_openstack" /\ owner = "KVM" -> kvm_test_openstack(j.ver)
      [] method = "test_openstack" /\ owner = "Equinix" -> equinix_test_openstack(j.ver)
      [] method = "init_stage" /\ owner = "LinuxHypervisors" -> init_stage(j.name, j.arch, j.image)
      [] method = "init_stage" /\ owner = "HyperV" -> hyperv_init_stage(j.name, j.arch)
      [] method = "init_stage" /\ owner = "Equinix" -> equinix_init_stage
      [] method = "teardown_stage" -> teardown_stage(j.name, j.arch)
      [] method = "teardown_equinix_stage" -> teardown_equinix_stage
      [] method = "clear_ppc64le_host" -> clear_ppc64le_host
      [] method = "publish_ami" -> publish_ami
      [] method = "release_and_sign_stage" -> release_and_sign_stage
      [] method = "create_new_branch" -> create_new_branch
      [] method = "almalinux_wiki_pr" -> almalinux_wiki_pr
      [] OTHER -> <<>>

\* The build of an AWS AMI provisions its host first on every hypervisor
\* (the two AWS branches of stage build merged).
Dispatch_AwsBuildProvisions(j) ==
    CASE j.stage = "pullrequest" -> <<"almalinux_wiki_pr">>
      [] j.stage = "init" -> <<"init_stage">>
      [] j.stage = "build" ->
            IF j.image \in {"Vagrant Box", "GenericCloud", "OpenNebula"}
            THEN <<"build_stage">>
            ELSE IF j.image = "AWS AMI" /\ j.hypervisor # "AWS-STAGE-2"
            THEN <<"init_stage", "build_aws_stage">>
            ELSE IF j.hypervisor = "AWS-STAGE-2"
            THEN <<"init_stage", "build_aws_stage">>
            ELSE IF j.image = "Docker"
            THEN <<"build_docker_stage", "create_new_branch", "create_docker_branch">>
            ELSE <<>>
      [] j.stage = "test" ->
            IF j.image = "AWS AMI" THEN <<"test_aws_stage">>
            ELSE IF j.image = "GenericCloud" THEN <<"test_openstack">>
            ELSE <<"test_stage">>
      [] j.stage = "release" ->
            IF j.image \in {"OpenNebula", "GenericCloud"}
            THEN <<"release_and_sign_stage">>
            ELSE IF j.image = "AWS AMI" THEN <<"publish_ami">>
            ELSE <<"release_stage">>
      [] j.stage = "destroy" ->
            IF j.image \in {"OpenNebula", "GenericCloud"} /\ j.arch = "aarch64"
            THEN <<"teardown_equinix_stage">>
            ELSE IF j.image = "Docker" /\ j.arch = "ppc64le"
            THEN <<"clear_ppc64le_host">>
            ELSE <<"teardown_stage">>
      [] OTHER -> <<>>

\* The calls the branch of main selected by the stage, the hypervisor
\* argument, settings.image and the architecture makes, in order.
Dispatch(j) ==
    CASE j.stage = "pullrequest" -> <<"almalinux_wiki_pr">>
      [] j.stage = "init" -> <<"init_stage">>
      [] j.stage = "build" ->
            IF j.image \in {"Vagrant Box", "GenericCloud", "OpenNebula"}
            THEN <<"build_stage">>
            ELSE IF j.image = "AWS AMI" /\ j.hypervisor # "AWS-STAGE-2"
            THEN <<"build_aws_stage">>
            ELSE IF j.hypervisor = "AWS-STAGE-2"
            THEN <<"init_stage", "build_aws_stage">>
            ELSE IF j.image = "Docker"
            THEN <<"build_docker_stage", "create_new_branch", "create_docker_branch">>
            ELSE <<>>
      [] j.stage = "test" ->
            IF j.image = "AWS AMI" THEN <<"test_aws_stage">>
            ELSE IF j.image = "GenericCloud" THEN <<"test_openstack">>
            ELSE <<"test_stage">>
      [] j.stage = "release" ->
            IF j.image \in {"OpenNebula", "GenericCloud"}
            THEN <<"release_and_sign_stage">>
            ELSE IF j.image = "AWS AMI" THEN <<"publish_ami">>
            ELSE <<"release_stage">>
      [] j.stage = "destroy" ->
            IF j.image \in {"OpenNebula", "GenericCloud"} /\ j.arch = "aarch64"
            THEN <<"teardown_equinix_stage">>
            ELSE IF j.image = "Docker" /\ j.arch = "ppc64le"
            THEN <<"clear_ppc64le_host">>
            ELSE <<"teardown_stage">>
      [] OTHER -> <<>>


----------------------------------------------------------------------------
(* main and the execution of a handler.                                    *)

\* The class of the object get_hypervisor returned.
Cls == Registry[Lower(job.hypervisor)]

\* The instructions of the handler running.
Prog == Program(handler.cls, handler.method,
                IF handler.cls = "main" THEN "main" ELSE Cls, job)

Cur == Prog[h_pc]

Running == m_pc = "running" /\ up_pc = "idle" /\ dl_pc = "idle" /\ h_pc <= Len(Prog)

\* The finally block that an exception raised at instruction pc reaches
\* first: the index of its `finally`, 0 when no try statement encloses pc.
RECURSIVE ScanFinally(_, _, _)
ScanFinally(prog, k, depth) ==
    IF k > Len(prog) THEN 0
    ELSE CASE prog[k].op = "try" -> ScanFinally(prog, k + 1, depth + 1)
           [] prog[k].op = "finally" ->
                IF depth = 0 THEN k ELSE ScanFinally(prog, k + 1, depth)
           [] prog[k].op = "endfinally" ->
                ScanFinally(prog, k + 1, IF depth > 0 THEN depth - 1 ELSE 0)
           [] OTHER -> ScanFinally(prog, k + 1, depth)

\* An exception is raised at the current instruction: control goes to the
\* enclosing finally block, or the handler and main end by raising.
RaiseHere ==
    LET f == ScanFinally(Prog, h_pc + 1, 0)
    IN  IF f = 0
        THEN m_pc' = "raised" /\ pending' = FALSE /\ h_pc' = h_pc
        ELSE m_pc' = m_pc /\ pending' = TRUE /\ h_pc' = f + 1

GoOn == m_pc' = m_pc /\ pending' = pending /\ h_pc' = h_pc + 1

\* The history event of the current instruction (key: the storage namespace
\* or the local directory it works in).
CurEv(ok) ==
    IF Cur.cmd = "s3_upload_file"
    THEN EvKey(Cur.op, Cur.s, Cur.cmd, 0, "build_log", ok, "", Namespace(job))
    ELSE EvKey(Cur.op, Cur.s, Cur.cmd, 0, "", ok, "", Cur.dir)

\* The error of the lookup caught and logged: main returns normally.
MainStart_LookupErrorLogged ==
    /\ m_pc = "start"
    /\ IF job.hypervisor \notin HypervisorChoices \cup {"None"}
       THEN /\ m_pc' = "raised"
            /\ UNCHANGED <<calls, instances>>
       ELSE IF job.stage = "pullrequest"
       THEN /\ m_pc' = "dispatched" /\ calls' = Dispatch(job)
            /\ UNCHANGED instances
       ELSE IF Lower(job.hypervisor) \notin DOMAIN Registry
       THEN /\ m_pc' = "returned"
            /\ UNCHANGED <<calls, instances>>
       ELSE /\ m_pc' = "dispatched" /\ calls' = Dispatch(job)
            /\ instances' = instances + 1
    /\ UNCHANGED <<rpvars, job, faults, log, sha256, dlvars, upvars, handler, h_pc, pending,
                   conn, opener, have_ip, tf_dir, branch>>

\* main: parse_args (exits on a --hypervisor outside the choices), then for
\* every stage but pullrequest args.hypervisor.lower() (an AttributeError
\* when --hypervisor is not given) and get_hypervisor (a KeyError for a name
\* that is no key of the table); then the branch of the stage is selected.
MainStart ==
    /\ m_pc = "start"
    /\ IF job.hypervisor \notin HypervisorChoices \cup {"None"}
       THEN /\ m_pc' = "raised"
            /\ UNCHANGED <<calls, instances>>
       ELSE IF job.stage = "pullrequest"
       THEN /\ m_pc' = "dispatched" /\ calls' = Dispatch(job)
            /\ UNCHANGED instances
       ELSE IF Lower(job.hypervisor) \notin DOMAIN Registry
       THEN /\ m_pc' = "raised"
            /\ UNCHANGED <<calls, instances>>
       ELSE /\ m_pc' = "dispatched" /\ calls' = Dispatch(job)
            /\ instances' = instances + 1
    /\ UNCHANGED <<rpvars, job, faults, log, sha256, dlvars, upvars, handler, h_pc, pending,
                   conn, opener, have_ip, tf_dir, branch>>

\* main makes the next call of the branch (an AttributeError when the class
\* has no such method), or returns when none is left.
MainCall ==
    /\ m_pc = "dispatched"
    /\ IF calls = <<>>
       THEN m_pc' = "returned" /\ UNCHANGED <<calls, handler, h_pc>>
       ELSE LET method == Head(calls)
                owner == IF method \in MainFunctions THEN "main"
                         ELSE Resolve(Cls, method)
            IN  IF owner = ""
                THEN m_pc' = "raised" /\ UNCHANGED <<calls, handler, h_pc>>
                ELSE /\ m_pc' = "running"
                     /\ handler' = [cls |-> owner, method |-> method]
                     /\ h_pc' = 1
                     /\ calls' = Tail(calls)
    /\ UNCHANGED <<rpvars, job, faults, log, sha256, dlvars, upvars, pending, conn, opener,
                   have_ip, tf_dir, branch, instances>>

\* The handler returned to main.
HReturn ==
    /\ m_pc = "running" /\ up_pc = "idle" /\ dl_pc = "idle"
    /\ h_pc > Len(Prog)
    /\ m_pc' = "dispatched"
    /\ UNCHANGED <<rpvars, job, faults, log, sha256, dlvars, upvars, calls, handler, h_pc,
                   pending, conn, opener, have_ip, tf_dir, branch, instances>>

\* An instruction that makes no external call: the blocks of try/finally
\* (the end of a finally block raises the exception that entered it again),
\* a cached instance address, the guards, a constructor.
HControl ==
    /\ Running
    /\ \/ /\ Cur.op \in {"try", "finally"}
          /\ GoOn /\ UNCHANGED instances
       \/ /\ Cur.op = "endfinally"
          /\ IF pending THEN RaiseHere ELSE GoOn
          /\ UNCHANGED instances
       \/ /\ Cur.op = "ip" /\ have_ip
          /\ GoOn /\ UNCHANGED instances
       \/ /\ Cur.op = "unless_exists"
          /\ m_pc' = m_pc /\ pending' = pending
          /\ h_pc' = IF tf_dir THEN h_pc + 1 ELSE h_pc + 1 + Cur.n
          /\ UNCHANGED instances
       \/ /\ Cur.op = "if_exists"
          /\ m_pc' = m_pc /\ pending' = pending
          /\ h_pc' = IF branch THEN h_pc + 1 + Cur.n ELSE h_pc + 1
          /\ UNCHANGED instances
       \/ /\ Cur.op = "jump"
          /\ m_pc' = m_pc /\ pending' = pending
          /\ h_pc' = h_pc + 1 + Cur.n
          /\ UNCHANGED instances
       \/ /\ Cur.op = "construct"
          /\ GoOn /\ instances' = instances + 1
    /\ UNCHANGED <<rpvars, job, faults, log, sha256, dlvars, upvars, calls, handler, conn,
                   opener, have_ip, tf_dir, branch>>

\* The external call of the current instruction returned.
HStepOk ==
    /\ Running
    /\ \/ Cur.op \in {"exec", "execpass", "sftp", "local", "localpass",
                      "connect", "close", "create_branch", "rmtree", "info"}
       \/ Cur.op = "ip" /\ ~have_ip
       \/ Cur.op = "copytree" /\ ~tf_dir
    /\ log' = Append(log, CurEv(TRUE))
    /\ GoOn
    /\ conn' = CASE Cur.op = "connect" -> [conn EXCEPT ![Cur.s] = "open"]
                 [] Cur.op = "close" -> [conn EXCEPT ![Cur.s] = "closed"]
                 [] OTHER -> conn
    /\ opener' = IF Cur.op = "connect" THEN [opener EXCEPT ![Cur.s] = handler]
                  ELSE opener
    /\ have_ip' = IF Cur.op = "ip" THEN TRUE ELSE have_ip
    /\ tf_dir' = CASE Cur.op = "copytree" -> TRUE
                   [] Cur.op = "rmtree" /\ Cur.cmd = "terraform_dir" -> FALSE
                   [] OTHER -> tf_dir
    /\ work_dir' = IF Cur.op = "rmtree" /\ Cur.cmd = "work_dir" THEN FALSE
                   ELSE work_dir
    /\ branch' = IF Cur.op = "create_branch" THEN TRUE ELSE branch
    /\ UNCHANGED <<rpvars, job, faults, sha256, dl_pc, dl_i, upvars, calls, handler, instances>>

\* The external call of the current instruction raised (safe_execute:
\* ExecuteError; shutil.copytree: the destination exists), or the
\* instruction is a statement that always raises.
HStepFail ==
    /\ Running
    /\ \/ /\ \/ Cur.op \in {"exec", "sftp", "local", "connect", "create_branch"}
             \/ Cur.op = "ip" /\ ~have_ip
             \/ Cur.op = "copytree" /\ ~tf_dir
          /\ Fault
       \/ /\ \/ Cur.op = "raise"
             \/ Cur.op = "copytree" /\ tf_dir
          /\ UNCHANGED faults
    /\ log' = Append(log, CurEv(FALSE))
    /\ RaiseHere
    /\ UNCHANGED <<rpvars, job, sha256, dlvars, upvars, calls, handler, conn, opener,
                   have_ip, tf_dir, branch, instances>>

\* The external call raised inside a try/except that only logs the error.
HStepPass ==
    /\ Running
    /\ Fault
    /\ Cur.op \in {"execpass", "localpass"}
    /\ log' = Append(log, CurEv(FALSE))
    /\ GoOn
    /\ UNCHANGED <<rpvars, job, sha256, dlvars, upvars, calls, handler, conn, opener,
                   have_ip, tf_dir, branch, instances>>

\* The handler calls upload_to_bucket / download_qcow.
HCall ==
    /\ Running
    /\ \/ /\ Cur.op = "upload"
          /\ UpEnter(Cur.files, Cur.s)
          /\ UNCHANGED dlvars
       \/ /\ Cur.op = "download"
          /\ dl_pc' = "mkdir"
          /\ UNCHANGED <<dl_i, work_dir, upvars>>
    /\ UNCHANGED <<rpvars, job, faults, log, sha256, hvars>>

\* upload_to_bucket / download_qcow returned to the handler or raised.
HCallEnd ==
    /\ m_pc = "running"
    /\ \/ /\ up_pc \in {"returned", "raised"}
          /\ IF up_pc = "returned" THEN GoOn ELSE RaiseHere
          /\ up_pc' = "idle" /\ up_files' = <<>> /\ up_i' = 0 /\ up_ssh' = ""
          /\ up_stdout' = <<>>
          /\ UNCHANGED dlvars
       \/ /\ dl_pc \in {"returned", "raised"}
          /\ IF dl_pc = "returned" THEN GoOn ELSE RaiseHere
          /\ dl_pc' = "idle" /\ dl_i' = 0
          /\ UNCHANGED <<work_dir, upvars>>
    /\ UNCHANGED <<rpvars, job, faults, log, sha256, calls, handler, conn, opener, have_ip,
                   tf_dir, branch, instances>>

----------------------------------------------------------------------------
(* Jobs.                                                                   *)

\* settings.build_number values explored.
BuildNumbers == {"101", "102"}
\* Days on which TIMESTAMP may be taken.
Days == {"20240101", "20240102"}

DlIdle == dl_pc = "idle" /\ dl_i = 0
RpIdle == diff = <<>> /\ rp_pc = "idle" /\ rp_i = 0 /\ packages = <<>> /\ text = <<>>
UpIdle == up_pc = "idle" /\ up_files = <<>> /\ up_i = 0 /\ up_ssh = "" /\ up_stdout = <<>>
\* No dispatch is running: the function is called on its own.
NoDispatch(sessions) ==
    /\ m_pc = "none" /\ calls = <<>> /\ handler = [cls |-> "", method |-> ""]
    /\ h_pc = 0 /\ pending = FALSE
    /\ conn = [s \in SessionVars |-> IF s \in sessions THEN "open" ELSE "none"]
    /\ opener = [s \in SessionVars |-> handler]
    /\ have_ip = FALSE /\ tf_dir = FALSE /\ branch = FALSE /\ instances = 1
    /\ faults = -1

----------------------------------------------------------------------------
(* download_qcow on its own: any release job calls it, with the working    *)
(* directory present (left by an earlier run of the day) or absent.        *)

DownloadJobs ==
    [name : {"kvm", "equinix"}, arch : {"x86_64", "aarch64"},
     image : {"GenericCloud", "OpenNebula"}, ver : {"8", "9"},
     build_number : BuildNumbers, timestamp : Days]

InitDownload ==
    /\ job \in DownloadJobs
    /\ log = <<>>
    /\ dl_pc = "mkdir" /\ dl_i = 0
    /\ work_dir \in BOOLEAN
    /\ UpIdle /\ RpIdle
    /\ sha256 = [f \in FileNames |-> "h1"]
    /\ NoDispatch({})

NextDownload == DlMkdir \/ DlAttemptOk \/ DlAttemptFail \/ DlSyncOk \/ DlSyncFail

SpecDownload == InitDownload /\ [][NextDownload]_vars

----------------------------------------------------------------------------
(* upload_to_bucket on its own: called with any batch of files.            *)

UploadJobs ==
    [name : {"kvm", "hyperv"}, arch : {"x86_64"},
     image : {"Vagrant Box", "GenericCloud"}, ver : {"8"},
     build_number : {"101"}, timestamp : {"20240101"}]

InitUpload ==
    /\ job \in UploadJobs
    /\ log = <<>>
    /\ DlIdle /\ work_dir = FALSE
    /\ up_files \in Batches
    /\ up_ssh = "ssh"
    /\ up_i = 1
    /\ up_stdout = <<>>
    /\ up_pc = IF Len(up_files) >= 1 THEN "sha" ELSE "returned"
    /\ sha256 \in {[f \in FileNames |-> IF f \in BatchFiles THEN g[f] ELSE "h1"] :
                        g \in [BatchFiles -> Hashes]}
    /\ NoDispatch({"ssh"})
    /\ RpIdle

NextUpload == UpShaOk \/ UpShaFail \/ UpCpOk \/ UpCpFail

SpecUpload == InitUpload /\ [][NextUpload]_vars

----------------------------------------------------------------------------
(* The package report of create_docker_branch: the lines of the diff of    *)
(* one configuration are grouped by package name, and every package with   *)
(* an added and a removed record gets a line in the commit message.        *)
(* A string joined by "-" (a package spec, a version string) is the        *)
(* sequence of its parts.                                                  *)

\* The package names and versions of the diffs explored.
PkgNames == {"bash", "zlib"}
PkgVersions == {"1.0", "1.1"}
\* Longest diff explored.
MaxLines == 3

\* An empty line of the output (the rest of split('\n')).
NoLine == [sign |-> "", spec |-> <<>>]
\* The package specs name-version-release.arch of the diffs explored.
PkgSpecs == {<<n, v, "1.el8", "x86_64">> : n \in PkgNames, v \in PkgVersions}
\* A line that is no package spec.
Malformed == <<"garbage">>
\* A line of the diff: raw_package[0] and raw_package[1:].  The pattern of
\* the grep lets the signs "+", "-" and "|" through.
DiffLines ==
    {NoLine} \cup
    [sign : {"+", "-"}, spec : PkgSpecs \cup {Malformed}] \cup
    [sign : {"|"}, spec : {<<"bash", "1.0", "1.el8", "x86_64">>}]
Diffs == UNION {[1..n -> DiffLines] : n \in 0..MaxLines}

\* The release without the dist tag.
CleanRelease(release) ==
    CASE release = "1.el8" -> "1"
      [] OTHER -> release

\* parse_package of lib.utils accepts the package specs only.
Parsable(spec) == Len(spec) = 4

\* parse_package of lib.utils: the record of a package spec.
parse_package(spec) ==
    [name |-> spec[1], version |-> spec[2], release |-> spec[3],
     clean_release |-> CleanRelease(spec[3])]

\* A version string is the sequence of its lexemes: a run of digits, one of
\* the separators ":" and "-", or any other run of characters.
\* The lexemes \d+ matches as a whole.
DigitRuns == {"1", "2"}
\* f'{a}-{b}'
Dash(a, b) == <<a, "-", b>>
\* seq[-1]
Last(seq) == seq[Len(seq)]

\* A record of the changelog after strip(): the tokens of its first line
\* (split()) and the words of the lines after it.
Chunk(first, body) == [first |-> first, body |-> body]
\* A record of white space only: '' after strip().
Blank == Chunk(<<>>, <<>>)
\* A record whose first line ends with the version string given.
Entry(version_str, body) == Chunk(<<<<"*">>, <<"Mon">>, version_str>>, body)
\* The outputs of `rpm -q --changelog` explored, newest record first.
Changelogs ==
    {<<>>,
     <<Entry(Dash("1.1", "1.el8"), <<"fix", "CVE-2024-1", "CVE-2024-2">>)>>,
     <<Entry(Dash("1.1", "1.el8"), <<"CVE-2024-1", "fix", "CVE-2024-2">>),
       Blank,
       Entry(<<"2", ":">> \o Dash("1.0", "1.el8"), <<"CVE-2023-9">>)>>,
     <<Entry(Dash("1.2", "1.el8"), <<"CVE-2024-2">>),
       Blank,
       Entry(Dash("0.9", "1.el8"), <<"fix">>),
       Entry(Dash("0.8", "1.el8"), <<"CVE-2023-9", "CVE-2024-2">>)>>}

\* list(filter(None, packages))
raw_packages == SelectSeq(diff, LAMBDA l : l # NoLine)

\* packages[name][key] = val, on the defaultdict packages.
SetSlot(pkgs, name, key, val) ==
    IF \E i \in 1..Len(pkgs) : pkgs[i].name = name
    THEN [i \in 1..Len(pkgs) |->
            IF pkgs[i].name = name
            THEN [pkgs[i] EXCEPT !.d = (key :> val) @@ @]
            ELSE pkgs[i]]
    ELSE Append(pkgs, [name |-> name, d |-> (key :> val)])

\* The epoch is left in place.
StripEpoch_Keep(version_str) == version_str

\* re.sub('^\d+:', '', version_str)
StripEpoch(version_str) ==
    IF Len(version_str) >= 2 /\ version_str[1] \in DigitRuns /\ version_str[2] = ":"
    THEN SubSeq(version_str, 3, Len(version_str))
    ELSE version_str

\* The scan ends at the record of version-release only.
IsBoundary_ExactOnly(chunk, removed) ==
    StripEpoch(Last(chunk.first)) = Dash(removed.version, removed.release)

\* The three tests that end the scan of the changelog.
IsBoundary(chunk, removed) ==
    LET version_str == StripEpoch(Last(chunk.first))
    IN  \/ version_str = Dash(removed.version, removed.clean_release)
        \/ version_str = Dash(removed.version, removed.release)
        \/ version_str = <<removed.version>>

\* What (CVE-[0-9]*-[0-9]*) matches in a word: the identifier, an
\* identifier cut at the first character that is no digit, or nothing.
Match(word) ==
    CASE word \in {"CVE-2024-1", "CVE-2024-2", "CVE-2023-9"} -> <<word>>
      [] word = "CVE-2024-XXXX" -> <<"CVE-2024-">>
      [] OTHER -> <<>>

\* re.findall(r'(CVE-[0-9]*-[0-9]*)', changelog_text)
RECURSIVE findall(_)
findall(changelog_text) ==
    IF changelog_text = <<>> THEN <<>>
    ELSE Match(Head(changelog_text)) \o findall(Tail(changelog_text))

\* The record of the removed version is passed over and the scan goes on.
RECURSIVE cve_list_SkipsBoundary(_, _)
cve_list_SkipsBoundary(changelog, removed) ==
    IF changelog = <<>> THEN <<>>
    ELSE IF Head(changelog) = Blank \/ IsBoundary(Head(changelog), removed)
         THEN cve_list_SkipsBoundary(Tail(changelog), removed)
    ELSE findall(Head(changelog).body)
            \o cve_list_SkipsBoundary(Tail(changelog), removed)

\* An empty record ends the scan.
RECURSIVE cve_list_StopsAtBlank(_, _)
cve_list_StopsAtBlank(changelog, removed) ==
    IF changelog = <<>> \/ Head(changelog) = Blank THEN <<>>
    ELSE IF IsBoundary(Head(changelog), removed) THEN <<>>
    ELSE findall(Head(changelog).body)
            \o cve_list_StopsAtBlank(Tail(changelog), removed)

\* An identifier an earlier record gave is not taken again from a later one.
RECURSIVE cve_list_NoRepeat(_, _)
cve_list_NoRepeat(changelog, removed) ==
    IF changelog = <<>> THEN <<>>
    ELSE IF Head(changelog) = Blank THEN cve_list_NoRepeat(Tail(changelog), removed)
    ELSE IF IsBoundary(Head(changelog), removed) THEN <<>>
    ELSE LET found == findall(Head(changelog).body)
         IN  found \o SelectSeq(cve_list_NoRepeat(Tail(changelog), removed),
                                LAMBDA w : \A i \in 1..Len(found) : found[i] # w)

\* cve_list after the loop over the records of the changelog.
RECURSIVE cve_list(_, _)
cve_list(changelog, removed) ==
    IF changelog = <<>> THEN <<>>
    ELSE IF Head(changelog) = Blank THEN cve_list(Tail(changelog), removed)
    ELSE IF IsBoundary(Head(changelog), removed) THEN <<>>
    ELSE findall(Head(changelog).body) \o cve_list(Tail(changelog), removed)

\* ", ".join(list)
RECURSIVE Join(_)
Join(list) ==
    IF Len(list) <= 1 THEN list
    ELSE <<Head(list), ", ">> \o Join(Tail(list))

\* text[0]
Title == [kind |-> "title", name |-> "", from |-> <<>>, to |-> <<>>, fixes |-> <<>>]

\* The removed record is printed after "to" and the added one after "from".
Header_Swapped(pkg) ==
    LET added == pkg.d["+"]
        removed == pkg.d["-"]
        cves == cve_list(pkg.d["changelog"], removed)
    IN  [kind |-> "upgrade", name |-> added.name,
         from |-> Dash(added.version, added.release),
         to |-> Dash(removed.version, removed.release),
         fixes |-> IF cves # <<>> THEN <<Join(cves)>> ELSE <<>>]

\* The Fixes line follows every upgrade line.
Header_AlwaysFixes(pkg) ==
    LET added == pkg.d["+"]
        removed == pkg.d["-"]
        cves == cve_list(pkg.d["changelog"], removed)
    IN  [kind |-> "upgrade", name |-> added.name,
         from |-> Dash(removed.version, removed.release),
         to |-> Dash(added.version, added.release),
         fixes |-> <<Join(cves)>>]

\* header: the upgrade line, and the Fixes line (fixes holds the lines that
\* follow the upgrade line) when cve_list is not empty.
Header(pkg) ==
    LET added == pkg.d["+"]
        removed == pkg.d["-"]
        cves == cve_list(pkg.d["changelog"], removed)
    IN  [kind |-> "upgrade", name |-> added.name,
         from |-> Dash(removed.version, removed.release),
         to |-> Dash(added.version, added.release),
         fixes |-> IF cves # <<>> THEN <<Join(cves)>> ELSE <<>>]

\* A line for every package that has an added or a removed record.
ReportLines_EitherSlot(pkgs) ==
    [k \in 1..Len(pkgs) |->
        [kind |-> "upgrade", name |-> pkgs[k].name, from |-> <<>>, to |-> <<>>,
         fixes |-> <<>>]]

\* The lines `for pkg in packages.values()` appends to text.
ReportLines(pkgs) ==
    LET pairs == SelectSeq(pkgs, LAMBDA pkg : "+" \in DOMAIN pkg.d /\ "-" \in DOMAIN pkg.d)
    IN  [k \in 1..Len(pairs) |-> Header(pairs[k])]

\* The position after the body of the loop ended for the line at index i.
RpAfterBody(i) == IF i + 1 <= Len(raw_packages) THEN "lines" ELSE "report"

\* A line with a sign other than "+": the record goes into the slot of the
\* sign.
RpRemoved ==
    /\ rp_pc = "lines"
    /\ raw_packages[rp_i].sign \in {"-", "|"}
    /\ Parsable(raw_packages[rp_i].spec)
    /\ LET package == parse_package(raw_packages[rp_i].spec)
       IN  packages' = SetSlot(packages, package.name, raw_packages[rp_i].sign,
                               package)
    /\ rp_i' = rp_i + 1
    /\ rp_pc' = RpAfterBody(rp_i)
    /\ UNCHANGED <<diff, text>>
    /\ UNCHANGED <<job, faults, log, sha256, dlvars, upvars, hvars>>

\* A line with the sign "+": the record goes into the slot "+" and the
\* changelog of the package is fetched and kept.
RpAddedOk ==
    /\ rp_pc = "lines"
    /\ raw_packages[rp_i].sign = "+"
    /\ Parsable(raw_packages[rp_i].spec)
    /\ \E changelog \in Changelogs :
        LET package == parse_package(raw_packages[rp_i].spec)
        IN  /\ packages' = SetSlot(SetSlot(packages, package.name, "+", package),
                                   package.name, "changelog", changelog)
            /\ log' = Append(log, Ev("exec", "ssh", "rpm_changelog", rp_i,
                                     package.name, TRUE, ""))
    /\ rp_i' = rp_i + 1
    /\ rp_pc' = RpAfterBody(rp_i)
    /\ UNCHANGED <<diff, text>>
    /\ UNCHANGED <<job, faults, sha256, dlvars, upvars, hvars>>

\* The changelog command raised ExecuteError: nothing catches it.
RpAddedFail ==
    /\ rp_pc = "lines"
    /\ raw_packages[rp_i].sign = "+"
    /\ Parsable(raw_packages[rp_i].spec)
    /\ Fault
    /\ LET package == parse_package(raw_packages[rp_i].spec)
       IN  /\ packages' = SetSlot(packages, package.name, "+", package)
           /\ log' = Append(log, Ev("exec", "ssh", "rpm_changelog", rp_i,
                                    package.name, FALSE, ""))
    /\ rp_pc' = "raised"
    /\ UNCHANGED <<diff, rp_i, text>>
    /\ UNCHANGED <<job, sha256, dlvars, upvars, hvars>>

\* parse_package raised on a line that is no package spec: nothing in
\* create_docker_branch catches it.
RpParseFail ==
    /\ rp_pc = "lines"
    /\ ~Parsable(raw_packages[rp_i].spec)
    /\ rp_pc' = "raised"
    /\ UNCHANGED <<diff, rp_i, packages, text>>
    /\ UNCHANGED <<job, faults, log, sha256, dlvars, upvars, hvars>>

\* The loop over packages.values(): the report lines are appended to text.
RpReport ==
    /\ rp_pc = "report"
    /\ text' = text \o ReportLines(packages)
    /\ rp_pc' = "done"
    /\ UNCHANGED <<diff, rp_i, packages>>
    /\ UNCHANGED <<job, faults, log, sha256, dlvars, upvars, hvars>>

----------------------------------------------------------------------------
(* The package report on its own: the diff of one configuration.           *)

ReportJobs ==
    [name : {"kvm"}, arch : {"x86_64", "aarch64"}, image : {"Docker"},
     ver : {"8"}, build_number : {"101"}, timestamp : {"20240101"}]

InitReport ==
    /\ job \in ReportJobs
    /\ log = <<>>
    /\ DlIdle /\ work_dir = FALSE
    /\ UpIdle
    /\ sha256 = [f \in FileNames |-> "h1"]
    /\ NoDispatch({"ssh"})
    /\ diff \in Diffs
    /\ rp_i = 1
    /\ rp_pc = IF Len(raw_packages) >= 1 THEN "lines" ELSE "report"
    /\ packages = <<>>
    /\ text = <<Title>>

NextReport == RpRemoved \/ RpAddedOk \/ RpAddedFail \/ RpParseFail \/ RpReport

SpecReport == InitReport /\ [][NextReport]_vars

----------------------------------------------------------------------------
(* The scan of the changelog on its own: the report of a diff with one     *)
(* upgrade pair, from the loop over packages.values() on, for every        *)
(* changelog of a few records.                                             *)

\* Longest changelog explored.
MaxChunks == 3

\* The version strings the first lines of the records end with.
ScanVersions ==
    {Dash("1.0", "1.el8"), Dash("1.0", "1"), <<"1.0">>, Dash("1.1", "1.el8"),
     <<"2", ":">> \o Dash("1.0", "1.el8"),
     <<"x", ":">> \o Dash("1.0", "1.el8"),
     <<"v", "2", ":">> \o Dash("1.0", "1.el8")}
\* The texts after the first line: every one holds an identifier.
ScanBodies ==
    {<<"CVE-2024-2", "fix", "CVE-2024-1", "CVE-2024-2">>,
     <<"CVE-2023-9", "CVE-2024-XXXX">>}
ScanChunks ==
    {Entry(v, b) : v \in ScanVersions, b \in ScanBodies} \cup
    {Blank,
     Chunk(<<<<"*">>, <<"CVE-2023-9">>, Dash("1.1", "1")>>, <<"CVE-2024-1">>)}
ScanChangelogs == UNION {[1..n -> ScanChunks] : n \in 0..MaxChunks}

InitScan ==
    /\ job \in ReportJobs
    /\ DlIdle /\ work_dir = FALSE
    /\ UpIdle
    /\ sha256 = [f \in FileNames |-> "h1"]
    /\ NoDispatch({"ssh"})
    /\ \E removed \in {sp \in PkgSpecs : sp[1] = "bash"}, changelog \in ScanChangelogs :
        LET added == <<"bash", "1.1", "1.el8", "x86_64">>
        IN  /\ diff = <<[sign |-> "-", spec |-> removed], [sign |-> "+", spec |-> added]>>
            /\ packages = SetSlot(SetSlot(SetSlot(<<>>, "bash", "-", parse_package(removed)),
                                          "bash", "+", parse_package(added)),
                                  "bash", "changelog", changelog)
    /\ log = <<Ev("exec", "ssh", "rpm_changelog", 2, "bash", TRUE, "")>>
    /\ rp_i = 3
    /\ rp_pc = "report"
    /\ text = <<Title>>

NextScan == RpReport

SpecScan == InitScan /\ [][NextScan]_vars

----------------------------------------------------------------------------
(* One run of main for one stage.                                          *)

\* Most failures of external calls in one run of main.
MaxFaults == 2

\* settings.docker_configuration.split(',') values explored.
DockerLists == {<<"default">>, <<"default", "micro">>}

\* The values of --hypervisor ("None": not given; "Xen": a name outside the
\* choices), --stage, --arch, settings.image ("Other": a kind main has no
\* branch for) and OS_MAJOR_VER.
HypervisorArgs == HypervisorChoices \cup {"None", "Xen"}
StageArgs == {"init", "build", "destroy", "test", "release", "pullrequest", "None"}
ArchArgs == {"x86_64", "aarch64", "ppc64le"}
Images == {"Vagrant Box", "GenericCloud", "OpenNebula", "AWS AMI", "Docker",
           "Other"}
Versions == {"8", "9"}

Jobs ==
    {j \in [hypervisor : HypervisorArgs, stage : StageArgs, arch : ArchArgs,
            image : Images, ver : Versions, docker_list : DockerLists,
            name : {Lower(hy) : hy \in HypervisorArgs},
            build_number : {"101"}, timestamp : {"20240101"}] :
        /\ j.name = Lower(j.hypervisor)
        /\ j.image = "Docker" \/ j.docker_list = <<"default">>}

Init ==
    /\ job \in Jobs
    /\ log = <<>>
    /\ DlIdle /\ UpIdle /\ RpIdle
    /\ work_dir \in {FALSE} \cup {w \in BOOLEAN : job.stage = "release"}
    /\ sha256 = [f \in FileNames |-> "h1"]
    /\ m_pc = "start" /\ calls = <<>> /\ handler = [cls |-> "", method |-> ""]
    /\ h_pc = 0 /\ pending = FALSE
    /\ conn = [s \in SessionVars |-> "none"]
    /\ opener = [s \in SessionVars |-> handler]
    /\ have_ip = FALSE
    /\ tf_dir \in {TRUE} \cup {t \in BOOLEAN : job.arch = "aarch64"}
    /\ branch \in {FALSE} \cup {b \in BOOLEAN : job.image = "Docker"}
    /\ instances = 0
    /\ faults = MaxFaults

Next ==
    \/ MainStart \/ MainCall \/ HReturn
    \/ HControl \/ HStepOk \/ HStepFail \/ HStepPass \/ HCall \/ HCallEnd
    \/ UpShaOk \/ UpShaFail \/ UpCpOk \/ UpCpFail
    \/ DlMkdir \/ DlAttemptOk \/ DlAttemptFail \/ DlSyncOk \/ DlSyncFail

Spec == Init /\ [][Next]_vars

----------------------------------------------------------------------------
(* Claims about download_qcow (checked under SpecDownload).                *)

\* C2: when all 5 download attempts have failed and the call has ended, the
\* bulk-sync fallback was invoked exactly once, and if the fallback failed
\* the call ended by raising instead of returning the working directory.
C2_FallbackOnceThenFatal ==
    (DlEnded /\ FailedDownloads = 5) =>
        /\ SyncCalls = 1
        /\ SyncFailed => dl_pc = "raised"

C2_Witness == dl_pc = "raised" /\ FailedDownloads = 5 /\ SyncFailed

\* C3: when the first 4 attempts fail and the 5th succeeds, the call returns
\* the working directory and the fallback is invoked zero times.
C3_FourFailuresThenSuccess ==
    (DownloadOutcomes = <<FALSE, FALSE, FALSE, FALSE, TRUE>>) =>
        /\ dl_pc = "returned"
        /\ SyncCalls = 0

C3_Witness ==
    DownloadOutcomes = <<FALSE, FALSE, FALSE, FALSE, TRUE>> /\ dl_pc = "returned"

\* C4: whatever the outcomes of the attempts, one call invokes the fallback
\* at most once and makes at most 5 download attempts.
C4_AtMostOneFallbackFiveAttempts ==
    /\ SyncCalls <= 1
    /\ Count(IsDownload) <= 5

C4_Witness == SyncCalls = 1 /\ Count(IsDownload) = 5 /\ DlEnded

\* C5: the fallback is invoked if and only if every one of the 5 attempts
\* failed; if any attempt succeeded the fallback is never invoked.
C5_FallbackIffAllFailed ==
    DlEnded => (SyncCalls >= 1 <=> FailedDownloads = 5)

\* C6: once an attempt to download the object succeeds, no more download
\* attempts are made in the same call.
C6_NoAttemptAfterSuccess ==
    \A j, k \in 1..Len(log) :
        (j < k /\ IsDownload(log[j]) /\ log[j].ok) => ~IsDownload(log[k])

----------------------------------------------------------------------------
(* Claims about upload_to_bucket (checked under SpecUpload).               *)

\* C7: for every file whose checksum command fails with ExecuteError, no
\* upload command is issued for it, the call does not raise because of it
\* (the call goes straight on to the checksum of the next file, or returns
\* when it was the last one), and when no upload command fails the call
\* returns with the checksum of every file attempted and the upload of every
\* file whose checksum succeeded attempted.
C7_ChecksumFailureSkipsFile ==
    /\ \A k \in 1..Len(log) :
        (IsSha(log[k]) /\ ~log[k].ok) =>
            /\ \A m \in 1..Len(log) : ~(IsCp(log[m]) /\ log[m].idx = log[k].idx)
            /\ IF k < Len(log)
               THEN IsSha(log[k + 1]) /\ log[k + 1].idx = log[k].idx + 1
               ELSE IF log[k].idx < Len(up_files)
                    THEN up_pc = "sha" /\ up_i = log[k].idx + 1
                    ELSE up_pc = "returned"
    /\ up_pc = "raised" => IsCp(log[Len(log)]) /\ ~log[Len(log)].ok
    /\ (UpEnded /\ \A m \in 1..Len(log) : IsCp(log[m]) => log[m].ok) =>
            /\ up_pc = "returned"
            /\ \A i \in 1..Len(up_files) :
                \E k \in 1..Len(log) :
                    /\ IsSha(log[k]) /\ log[k].idx = i
                    /\ log[k].ok => \E m \in 1..Len(log) :
                                        IsCp(log[m]) /\ log[m].idx = i

C7_Witness ==
    /\ up_pc = "returned"
    /\ Len(up_files) = 3
    /\ \E k \in 1..Len(log) : IsSha(log[k]) /\ ~log[k].ok /\ log[k].idx = 1
    /\ \E m \in 1..Len(log) : IsCp(log[m]) /\ log[m].ok /\ log[m].idx = 2
    /\ \E k \in 1..Len(log) : IsSha(log[k]) /\ ~log[k].ok /\ log[k].idx = 3

\* C8: an ExecuteError from the upload command of one file is skipped: the
\* error does not propagate to the caller and the remaining files of the
\* batch are still processed.
C8_UploadFailureSkipsFile ==
    \A m \in 1..Len(log) :
        (IsCp(log[m]) /\ ~log[m].ok) =>
            /\ up_pc # "raised"
            /\ UpEnded => \A i \in (log[m].idx + 1)..Len(up_files) :
                            \E k \in 1..Len(log) : IsSha(log[k]) /\ log[k].idx = i

\* C9: every upload command comes directly after the successful checksum
\* command of the same file in the same call and carries the checksum that
\* command printed as sha256 metadata, and the commands go through the files
\* one after another in list order.
C9_ChecksumBeforeUploadInOrder ==
    /\ \A m \in 1..Len(log) :
        IsCp(log[m]) =>
            /\ m > 1
            /\ IsSha(log[m - 1]) /\ log[m - 1].ok
            /\ log[m - 1].idx = log[m].idx
            /\ log[m].meta = log[m - 1].meta
            /\ log[m].meta \in Hashes
    /\ \A k \in 1..Len(log) :
        /\ log[k].idx \in 1..Len(up_files)
        /\ log[k].file = up_files[log[k].idx]
    /\ \A j, k \in 1..Len(log) :
        j < k => \/ log[j].idx < log[k].idx
                 \/ log[j].idx = log[k].idx /\ k = j + 1 /\ IsSha(log[j]) /\ IsCp(log[k])

C9_Witness ==
    /\ up_pc = "returned"
    /\ Len(up_files) = 3
    /\ \A i \in 1..3 : \E m \in 1..Len(log) : IsCp(log[m]) /\ log[m].ok /\ log[m].idx = i
    /\ \E m, n \in 1..Len(log) : IsCp(log[m]) /\ IsCp(log[n]) /\ log[m].meta # log[n].meta

----------------------------------------------------------------------------
(* Claims about the stage handlers (checked under Spec).                   *)

\* main has ended, or the handler has returned to it.
HandlerEnded == m_pc \in {"raised", "returned", "dispatched"}

SessionHandlers ==
    {"build_stage", "test_stage", "build_docker_stage", "build_aws_stage",
     "test_aws_stage", "test_openstack", "release_stage"}

\* C1: when a stage handler that opens a remote session has returned or
\* raised, the session is closed, also when a remote command failed after
\* the session was opened.
C1_SessionClosedOnEveryExit ==
    (HandlerEnded /\ handler.method \in SessionHandlers) =>
        \A s \in SessionVars : conn[s] # "open"

BuildHandlers == {"build_stage", "build_aws_stage", "build_docker_stage"}

IsBuildFailure(e) == e.op = "exec" /\ e.cmd \in {"build", "build_2"} /\ ~e.ok
\* A command that uploads the build log, or the checksum command that
\* upload_to_bucket issues for it first.
IsLogUpload(e) ==
    \/ (IsSha(e) \/ IsCp(e)) /\ e.file = "build_log"
    \/ e.cmd = "s3_upload_file"

\* C10: when the build command of a build handler failed with ExecuteError
\* and the handler has ended, an upload of the build log was attempted
\* after the failure and the handler ended by raising.
C10_BuildFailureUploadsLogAndRaises ==
    (HandlerEnded /\ handler.method \in BuildHandlers) =>
        \A k \in 1..Len(log) :
            IsBuildFailure(log[k]) =>
                /\ m_pc = "raised"
                /\ \E m \in (k + 1)..Len(log) : IsLogUpload(log[m])

\* C11: whenever upload_to_bucket runs inside a stage handler (also when
\* called from a finally block after a failed remote command), the session
\* it was given was opened by that same handler and is still open.
C11_UploadUsesOwnOpenSession ==
    (m_pc = "running" /\ up_pc \in {"sha", "cp"}) =>
        /\ conn[up_ssh] = "open"
        /\ opener[up_ssh] = handler

\* An upload from a finally block entered by a failed remote command.
C11_Witness ==
    /\ m_pc = "running" /\ up_pc = "cp" /\ pending
    /\ conn[up_ssh] = "open" /\ opener[up_ssh] = handler
    /\ \E k \in 1..Len(log) : log[k].op = "exec" /\ log[k].cmd = "test" /\ ~log[k].ok

----------------------------------------------------------------------------
(* Claims about main and get_hypervisor (checked under Spec).              *)

\* The --hypervisor argument names no key of the table of get_hypervisor.
Unregistered == Lower(job.hypervisor) \notin DOMAIN Registry

\* C12: a run of main for a stage that resolves a backend (every stage but
\* pullrequest, which calls no backend) with a hypervisor identifier that is
\* no key of get_hypervisor ends by raising, and before that no external
\* call was made and no backend object was constructed.
C12_UnregisteredFailsBeforeAnyCall ==
    (m_pc # "start" /\ Unregistered /\ job.stage # "pullrequest") =>
        /\ m_pc = "raised"
        /\ log = <<>>
        /\ instances = 0
        /\ handler.method = ""

C12_Witness ==
    /\ m_pc = "raised" /\ Unregistered /\ job.stage = "build"
    /\ job.hypervisor = "None" /\ log = <<>>

\* The image kinds main has branches for.
ImageKinds == {"Vagrant Box", "GenericCloud", "OpenNebula", "AWS AMI", "Docker"}

\* C13: when main has no handler branch for the combination of the stage,
\* the hypervisor, the image kind and the architecture (no branch at all,
\* or for stage build, test or release an image kind main does not know),
\* the run never returns normally, makes no external call and runs no
\* handler.
C13_NoBranchIsFatal ==
    (/\ m_pc # "start" /\ ~Unregistered /\ job.stage # "pullrequest"
     /\ \/ Dispatch(job) = <<>>
        \/ job.image \notin ImageKinds /\ job.stage \in {"build", "test", "release"}) =>
        /\ m_pc # "returned"
        /\ log = <<>>
        /\ handler.method = ""

\* C14, as claimed: in a run of main that resolves a backend exactly one
\* backend object is constructed.
C14_ExactlyOneBackend ==
    (m_pc # "start" /\ ~Unregistered /\ job.stage # "pullrequest") =>
        instances = 1

\* C14, amended: main constructs one backend object through get_hypervisor,
\* and the only other construction is the AwsStage2 object that
\* KVM.build_aws_stage creates after the stage-1 build succeeded and its AMI
\* id was saved, so a returned KVM.build_aws_stage has constructed two.
C14_OneBackendPlusHandOff ==
    (m_pc # "start" /\ ~Unregistered /\ job.stage # "pullrequest") =>
        /\ instances \in {1, 2}
        /\ instances = 2 =>
            /\ handler = [cls |-> "KVM", method |-> "build_aws_stage"]
            /\ \E k \in 1..Len(log) : log[k].cmd = "save_ami_id" /\ log[k].ok
        /\ (m_pc = "returned" /\ handler.method = "build_aws_stage"
                /\ handler.cls = "KVM") => instances = 2
        /\ (m_pc = "returned" /\ handler.method = "build_stage") => instances = 1

C14_Witness ==
    /\ m_pc = "returned" /\ instances = 2
    /\ handler = [cls |-> "KVM", method |-> "build_aws_stage"]

\* The stage each handler belongs to.
StageOf(method) ==
    CASE method = "init_stage" -> "init"
      [] method \in {"build_stage", "build_aws_stage", "build_docker_stage",
                     "create_new_branch", "create_docker_branch"} -> "build"
      [] method \in {"test_stage", "test_aws_stage", "test_openstack"} -> "test"
      [] method \in {"release_stage", "release_and_sign_stage", "publish_ami"} -> "release"
      [] method \in {"teardown_stage", "teardown_equinix_stage",
                     "clear_ppc64le_host"} -> "destroy"
      [] method = "almalinux_wiki_pr" -> "pullrequest"
      [] OTHER -> ""

\* C15, as claimed: a run of main for stage S runs only handlers of stage S;
\* a run for stage build never runs init_stage.
C15_OnlyHandlersOfTheStage ==
    handler.method # "" => StageOf(handler.method) = job.stage

\* C15, amended: a run of main for stage S runs only handlers of stage S,
\* except that stage build on hypervisor AWS-STAGE-2 runs init_stage first
\* and then build_aws_stage.
C15_OnlyHandlersOfTheStageButStage2 ==
    handler.method # "" =>
        \/ StageOf(handler.method) = job.stage
        \/ /\ job.hypervisor = "AWS-STAGE-2" /\ job.stage = "build"
           /\ handler.method = "init_stage"

C15_Witness ==
    /\ job.hypervisor = "AWS-STAGE-2" /\ job.stage = "build"
    /\ m_pc = "returned" /\ handler.method = "build_aws_stage"
    /\ \E k \in 1..Len(log) : log[k].cmd = "ansible_run" /\ log[k].ok

----------------------------------------------------------------------------
(* Claims about the hand-off of the AWS build and about teardown_stage     *)
(* (checked under Spec).                                                   *)

\* The directory in which init_stage of an AwsStage2 backend of the given
\* architecture provisions its host.
StageTwoProvisionDir(arch) ==
    IF arch = "aarch64" THEN <<"terraform", "aarch64">>
                        ELSE <<"terraform", "aws-stage-2">>

IsHandOffWrite(e) == e.op = "local" /\ e.cmd = "write_tfvars"
IsProvision(e) ==
    e.op = "local" /\ e.cmd \in {"terraform_init", "terraform_fmt",
                                  "terraform_validate", "terraform_apply"}

\* C16: KVM.build_aws_stage writes terraform.tfvars.json only after its
\* build command succeeded and never after it failed, it writes it into the
\* directory in which init_stage of the AwsStage2 backend of the same
\* architecture runs its terraform commands, and that init_stage runs them
\* there.
C16_HandOffAfterBuildIntoStageTwoDir ==
    /\ \A k \in 1..Len(log) :
        IsHandOffWrite(log[k]) =>
            /\ handler = [cls |-> "KVM", method |-> "build_aws_stage"]
            /\ log[k].key = StageTwoProvisionDir(job.arch)
            /\ \E b \in 1..(k - 1) :
                    log[b].op = "exec" /\ log[b].cmd = "build" /\ log[b].ok
            /\ \A b \in 1..Len(log) : ~IsBuildFailure(log[b])
    /\ job.hypervisor = "AWS-STAGE-2" =>
        \A k \in 1..Len(log) :
            IsProvision(log[k]) => log[k].key = StageTwoProvisionDir(job.arch)

C16_Witness ==
    /\ m_pc = "returned" /\ job.arch = "x86_64"
    /\ handler = [cls |-> "KVM", method |-> "build_aws_stage"]
    /\ \E k \in 1..Len(log) :
        IsHandOffWrite(log[k]) /\ log[k].ok /\ log[k].key = <<"terraform", "aws-stage-2">>

\* The terraform directory was absent when teardown_stage was called.
AbsentAtCall ==
    ~tf_dir /\ \A k \in 1..Len(log) : log[k].op # "rmtree"

\* C17: teardown_stage called while the terraform directory of the host is
\* absent issues no destroy command, does not raise, and returns after
\* reporting that the destroy is already completed.
C17_DestroyOfAbsentHostIsNoop ==
    (handler.method = "teardown_stage" /\ AbsentAtCall) =>
        /\ \A k \in 1..Len(log) : log[k].cmd # "terraform_destroy"
        /\ m_pc # "raised"
        /\ HandlerEnded =>
            log = <<Ev("info", "", "destroy_already_completed", 0, "", TRUE, "")>>

C17_Witness ==
    /\ handler.method = "teardown_stage" /\ AbsentAtCall /\ m_pc = "returned"
    /\ job.arch = "aarch64"
    /\ log = <<Ev("info", "", "destroy_already_completed", 0, "", TRUE, "")>>

----------------------------------------------------------------------------
(* Claims about the artifact namespace (checked under Spec).               *)

\* A call that writes or reads the object store.
IsStorage(e) ==
    IsCp(e) \/ IsDownload(e) \/ IsSync(e) \/ e.cmd = "s3_upload_file"

\* key is {buildNumber}-{imageKind}-{hypervisor}-{arch}-{timestamp} of job j.
IsNamespaceOf(key, j) ==
    /\ Len(key) >= 5
    /\ key[1] = j.build_number
    /\ key[2] = IMAGE(j.image)
    /\ SubSeq(key, 3, Len(key) - 2) = SplitDash(j.name)
    /\ key[Len(key) - 1] = j.arch
    /\ key[Len(key)] = j.timestamp

\* The jobs another run may be for.
OtherJobs ==
    [build_number : BuildNumbers, image : Images,
     name : {Lower(hy) : hy \in HypervisorChoices}, arch : ArchArgs,
     timestamp : Days]

Differ(j1, j2) ==
    \/ j1.build_number # j2.build_number \/ j1.image # j2.image
    \/ j1.name # j2.name \/ j1.arch # j2.arch \/ j1.timestamp # j2.timestamp

\* C18: every storage key that upload_to_bucket and
\* AwsStage2.build_aws_stage write and that download_qcow reads is the
\* namespace {buildNumber}-{imageKind}-{hypervisor}-{arch}-{timestamp} of the
\* job of the run, and a job that differs from it in one of the five parts
\* has a different namespace.
C18_KeysUnderOwnNamespace ==
    /\ \A k \in 1..Len(log) :
        IsStorage(log[k]) => IsNamespaceOf(log[k].key, job)
    /\ m_pc = "start" =>
        \A j2 \in OtherJobs : Differ(job, j2) => Namespace(j2) # Namespace(job)

C18_Witness ==
    /\ job.hypervisor = "AWS-STAGE-2" /\ m_pc = "returned"
    /\ \E k \in 1..Len(log) :
        /\ log[k].cmd = "s3_upload_file" /\ log[k].ok
        /\ log[k].key = <<"101", "AWS_AMI", "aws", "stage", "2", job.arch, "20240101">>

\* The times of day at which a run may start, and the values of
\* datetime.today().
Times == {"0900", "1700"}
Todays == [date : Days, time : Times]
DayOrder == <<"20240101", "20240102">>
TimeOrder == <<"0900", "1700">>
IndexOf(seq, x) == CHOOSE i \in 1..Len(seq) : seq[i] = x
Later(t1, t2) ==
    \/ IndexOf(DayOrder, t1.date) < IndexOf(DayOrder, t2.date)
    \/ /\ t1.date = t2.date
       /\ IndexOf(TimeOrder, t1.time) < IndexOf(TimeOrder, t2.time)

\* The run left outputs behind: an object under its namespace or the local
\* working directory named after it.
LeftOutputs ==
    \/ work_dir /\ \E k \in 1..Len(log) : log[k].op = "mkdir" /\ log[k].ok
    \/ \E k \in 1..Len(log) : IsCp(log[k]) /\ log[k].ok

\* C19: when a run has failed leaving outputs behind, a retry of the same
\* job (same build number, hypervisor, image kind and architecture) started
\* at any later time has a different artifact namespace.
C19_RetryNeverSharesNamespace ==
    (m_pc = "raised" /\ LeftOutputs) =>
        \A t1, t2 \in Todays :
            (TIMESTAMP(t1) = job.timestamp /\ Later(t1, t2)) =>
                Namespace([job EXCEPT !.timestamp = TIMESTAMP(t2)]) # Namespace(job)

----------------------------------------------------------------------------
(* Claims about the package report (checked under SpecReport).             *)

\* The diff has a line with the given sign for the package n.
HasLine(sign, n) ==
    \E i \in 1..Len(diff) :
        /\ diff[i] # NoLine /\ diff[i].sign = sign
        /\ parse_package(diff[i].spec).name = n

ReportLinesOf(n) ==
    {k \in 1..Len(text) : text[k].kind = "upgrade" /\ text[k].name = n}

\* C20: when the report of a diff is built, the commit message has a report
\* line for a package name exactly when the diff has a "+" line and a "-"
\* line for that name (one line then); a name that is only on "+" lines or
\* only on "-" lines has none.
C20_ReportLineIffBothSigns ==
    rp_pc = "done" =>
        \A n \in PkgNames :
            /\ ReportLinesOf(n) # {} <=> (HasLine("+", n) /\ HasLine("-", n))
            /\ Cardinality(ReportLinesOf(n)) <= 1

C20_Witness ==
    /\ rp_pc = "done"
    /\ HasLine("+", "bash") /\ HasLine("-", "bash") /\ ReportLinesOf("bash") # {}
    /\ HasLine("+", "zlib") /\ ~HasLine("-", "zlib") /\ ReportLinesOf("zlib") = {}

\* The group of the package n in packages.
GroupOf(n) == CHOOSE g \in {packages[i] : i \in 1..Len(packages)} : g.name = n

\* The groups that have an added and a removed record.
IsPair(g) == "+" \in DOMAIN g.d /\ "-" \in DOMAIN g.d
Pairs == {packages[i] : i \in {j \in 1..Len(packages) : IsPair(packages[j])}}

\* C21: every report line of an upgrade pair names the package of the pair,
\* its "from" string is version-release of the parsed removed record and its
\* "to" string is version-release of the parsed added record, as parsed:
\* not swapped, not the release without the dist tag.
C21_FromToAreTheParsedVersionRelease ==
    rp_pc = "done" =>
        /\ \A g \in Pairs : ReportLinesOf(g.name) # {}
        /\ \A k \in 1..Len(text) :
            text[k].kind = "upgrade" =>
                /\ \E g \in Pairs : g.name = text[k].name
                /\ LET g == GroupOf(text[k].name)
                   IN  /\ text[k].from = <<g.d["-"].version, "-", g.d["-"].release>>
                       /\ text[k].to = <<g.d["+"].version, "-", g.d["+"].release>>

C21_Witness ==
    /\ rp_pc = "done"
    /\ diff = <<[sign |-> "-", spec |-> <<"bash", "1.0", "1.el8", "x86_64">>],
                [sign |-> "+", spec |-> <<"bash", "1.1", "1.el8", "x86_64">>]>>
    /\ \E k \in 1..Len(text) :
        /\ text[k].kind = "upgrade" /\ text[k].name = "bash"
        /\ text[k].from = <<"1.0", "-", "1.el8">>
        /\ text[k].to = <<"1.1", "-", "1.el8">>

----------------------------------------------------------------------------
(* Claims about the scan of the changelog (checked under SpecScan).        *)

\* The removed record of the pair and the records of its changelog that are
\* not empty, newest first.
Removed == packages[1].d["-"]
Records == SelectSeq(packages[1].d["changelog"], LAMBDA c : c # Blank)
\* The version a record declares: the last token of its first line.
Declared(c) == Last(c.first)

\* The CVE list the Fixes line of the report line was joined from.
ListOf(line) ==
    IF line.fixes = <<>> THEN <<>>
    ELSE SelectSeq(line.fixes[1], LAMBDA w : w # ", ")
Collected == ListOf(text[Len(text)])

\* The identifiers of the bodies of the k newest records, in order.
RECURSIVE Found(_)
Found(k) == IF k = 0 THEN <<>> ELSE Found(k - 1) \o findall(Records[k].body)

\* The scan stopped at the record i: the list holds what the records before
\* it gave and nothing else (every record explored gives an identifier).
StopsAt(i) == Collected = Found(i - 1)

\* The three forms of the removed version.
FormsOf(removed) ==
    {Dash(removed.version, removed.release),
     Dash(removed.version, removed.clean_release),
     <<removed.version>>}
Forms == FormsOf(Removed)
Matches(c) == StripEpoch(Declared(c)) \in Forms
FirstMatch(i) == Matches(Records[i]) /\ \A j \in 1..(i - 1) : ~Matches(Records[j])

\* C22: the scan stops before the first record whose declared version
\* matches the removed version: that record and the records older than it
\* give nothing to the CVE list, whatever identifiers they hold.
C22_NothingFromTheBoundaryOn ==
    rp_pc = "done" =>
        \A b \in 1..Len(Records) :
            FirstMatch(b) =>
                /\ Len(Collected) <= Len(Found(b - 1))
                /\ \A n \in 1..Len(Collected) :
                    \E i \in 1..(b - 1) :
                        \E m \in 1..Len(Records[i].body) :
                            <<Collected[n]>> = Match(Records[i].body[m])

C22_Witness ==
    /\ rp_pc = "done"
    /\ Len(Records) = 3
    /\ FirstMatch(2)
    /\ ~Matches(Records[3])
    /\ Records[3].body = <<"CVE-2023-9", "CVE-2024-XXXX">>
    /\ Collected = <<"CVE-2024-2", "CVE-2024-1", "CVE-2024-2">>

\* The declared versions that are version-release of the removed record
\* behind an epoch.
WithEpoch(version_str) == {<<d, ":">> \o version_str : d \in DigitRuns}

\* C23: a record whose declared version is version-release of the removed
\* record behind a numeric epoch "E:" ends the scan, as if the epoch were
\* absent; and the record the scan stops at declares one of the forms of the
\* removed version with at most such an epoch in front (any other prefix is
\* kept and makes the version differ).
C23_EpochIsIgnored ==
    rp_pc = "done" =>
        \A i \in 1..Len(Records) :
            /\ Declared(Records[i]) \in WithEpoch(Dash(Removed.version, Removed.release))
                    => Len(Collected) <= Len(Found(i - 1))
            /\ StopsAt(i) =>
                    \/ Declared(Records[i]) \in Forms
                    \/ \E f \in Forms : Declared(Records[i]) \in WithEpoch(f)

C23_Witness ==
    /\ rp_pc = "done"
    /\ Removed.version = "1.0"
    /\ Len(Records) = 3
    /\ Declared(Records[1]) = <<"v", "2", ":", "1.0", "-", "1.el8">>
    /\ Declared(Records[2]) = <<"2", ":", "1.0", "-", "1.el8">>
    /\ StopsAt(2)

\* The number of records before the boundary: all of them when no record
\* matches.
Before(k) ==
    \/ k < Len(Records) /\ FirstMatch(k + 1)
    \/ k = Len(Records) /\ \A j \in 1..Len(Records) : ~Matches(Records[j])

\* C25: the CVE list is the concatenation, newest record first and in the
\* order of the text inside a record, of the identifiers of the bodies of
\* the records before the boundary; an identifier that occurs several times
\* is listed several times.
C25_ListIsTheConcatenation ==
    rp_pc = "done" =>
        \A k \in 0..Len(Records) : Before(k) => Collected = Found(k)

C25_Witness ==
    /\ rp_pc = "done"
    /\ Len(Records) = 3
    /\ Before(2)
    /\ Records[1].first = <<<<"*">>, <<"CVE-2023-9">>, <<"1.1", "-", "1">>>>
    /\ Collected = <<"CVE-2024-1", "CVE-2024-2", "CVE-2024-1", "CVE-2024-2">>

\* C29: the scan stops at a record if and only if the declared version of
\* the record, without its epoch, is version-release, version-cleanRelease
\* or the version of the removed record, and no newer record is so: a
\* record that is none of the three never stops the scan.
C29_BoundaryIffOneOfThreeForms ==
    rp_pc = "done" =>
        \A i \in 1..Len(Records) : StopsAt(i) <=> FirstMatch(i)

C29_Witness ==
    /\ rp_pc = "done"
    /\ Removed.version = "1.0"
    /\ Len(Records) = 3
    /\ Declared(Records[1]) = <<"1.0", "-", "1">>
    /\ Declared(Records[2]) = <<"1.0">>
    /\ StopsAt(1)

----------------------------------------------------------------------------
(* Claims about the CVE list of the report lines (checked under            *)
(* SpecReport).                                                            *)

\* No record of the changelog of the group declares a form of its removed
\* version.
NoMatch(g) ==
    \A i \in 1..Len(g.d["changelog"]) :
        LET c == g.d["changelog"][i]
        IN  c # Blank => StripEpoch(Declared(c)) \notin FormsOf(g.d["-"])

\* The identifiers of the bodies of all the records, in order.
RECURSIVE AllFound(_)
AllFound(changelog) ==
    IF changelog = <<>> THEN <<>>
    ELSE findall(Head(changelog).body) \o AllFound(Tail(changelog))

\* C24: when no record of the changelog of an upgrade pair matches the
\* removed version, every record gives its identifiers to the CVE list (the
\* scan runs to the end of the changelog) and the report line of the pair is
\* in the commit message.
C24_NoBoundaryConsumesAll ==
    rp_pc = "done" =>
        \A g \in Pairs :
            NoMatch(g) =>
                /\ ReportLinesOf(g.name) # {}
                /\ \A k \in ReportLinesOf(g.name) :
                    ListOf(text[k]) = AllFound(g.d["changelog"])

C24_Witness ==
    /\ rp_pc = "done"
    /\ \E g \in Pairs :
        /\ NoMatch(g)
        /\ Len(g.d["changelog"]) = 4
        /\ \E k \in ReportLinesOf(g.name) :
            ListOf(text[k]) = <<"CVE-2024-2", "CVE-2023-9", "CVE-2024-2">>

\* C26: a report line has a Fixes line if and only if the CVE list of its
\* pair is not empty, and the Fixes line is then the list joined by ", " in
\* the order of the list; with an empty list the upgrade line stands alone.
C26_FixesIffListNotEmpty ==
    rp_pc = "done" =>
        \A k \in 1..Len(text) :
            text[k].kind = "upgrade" =>
                LET g == GroupOf(text[k].name)
                    cves == cve_list(g.d["changelog"], g.d["-"])
                IN  /\ text[k].fixes # <<>> <=> cves # <<>>
                    /\ Len(text[k].fixes) <= 1
                    /\ cves # <<>> =>
                        LET line == text[k].fixes[1]
                        IN  /\ Len(line) = 2 * Len(cves) - 1
                            /\ \A i \in 1..Len(cves) : line[2 * i - 1] = cves[i]
                            /\ \A i \in 1..(Len(cves) - 1) : line[2 * i] = ", "

C26_Witness ==
    /\ rp_pc = "done"
    /\ \E k \in 1..Len(text) :
        /\ text[k].kind = "upgrade"
        /\ text[k].fixes = <<<<"CVE-2024-1", ", ", "CVE-2024-2">>>>

\* C27: a line of the diff that is no package spec is skipped and never
\* ends the report: the report is never left at such a line with the error
\* of parse_package.
C27_MalformedLineIsSkipped ==
    ~(/\ rp_pc = "raised"
      /\ rp_i <= Len(raw_packages)
      /\ ~Parsable(raw_packages[rp_i].spec))

----------------------------------------------------------------------------
(* Claims about the backoff of download_qcow (checked under SpecDownload). *)

\* The number of download attempts among the first p events of the log.
AttemptsUpTo(p) == Cardinality({j \in 1..p : IsDownload(log[j])})
\* The failed attempts that are not the final one.
FailedBeforeFinal ==
    {j \in 1..Len(log) : IsDownload(log[j]) /\ ~log[j].ok /\ AttemptsUpTo(j) < Attempts}

\* C28: the backoff sleep follows only a failed attempt that is not the
\* final one: there are as many sleeps as failed attempts among the first 4,
\* and no sleep comes after the failed final attempt, before the fallback
\* sync.
C28_NoSleepAfterFinalAttempt ==
    /\ \A p \in 1..Len(log) : log[p].op = "sleep" => AttemptsUpTo(p) < Attempts
    /\ DlEnded =>
        Cardinality({p \in 1..Len(log) : log[p].op = "sleep"})
            = Cardinality(FailedBeforeFinal)

----------------------------------------------------------------------------
(* Claims about the build passes of build_stage (checked under Spec).      *)

InBaseBuild == handler = [cls |-> "BaseHypervisor", method |-> "build_stage"]
SecondPass == job.image = "GenericCloud" /\ job.ver = "8"
IsBuildCmd(e, cmd) == e.op = "exec" /\ e.cmd = cmd
BuildCommands ==
    {p \in 1..Len(log) : IsBuildCmd(log[p], "build") \/ IsBuildCmd(log[p], "build_2")}

\* C30: in build_stage the second build command is executed only for
\* GenericCloud with major version 8 and only after the first build command
\* succeeded, and for that kind and version it is the step that follows the
\* download of the first build log; the files handed to the upload hold the
\* second log and the UEFI image exactly for that kind and version; for
\* another major version at most one build command is executed, and exactly
\* one once the upload is reached.
C30_SecondPassIffGenericCloud8 ==
    InBaseBuild =>
        /\ \A p \in 1..Len(log) :
            IsBuildCmd(log[p], "build_2") =>
                /\ SecondPass
                /\ \E q \in 1..(p - 1) : IsBuildCmd(log[q], "build") /\ log[q].ok
        /\ SecondPass =>
            \A p \in 1..(Len(log) - 1) :
                (log[p].cmd = "sftp_download_build_log" /\ log[p].ok)
                    => IsBuildCmd(log[p + 1], "build_2")
        /\ up_pc # "idle" =>
            /\ "build_log" \in {up_files[i] : i \in 1..Len(up_files)}
            /\ SecondPass <=> "build_log_2" \in {up_files[i] : i \in 1..Len(up_files)}
            /\ SecondPass <=> "image_uefi" \in {up_files[i] : i \in 1..Len(up_files)}
        /\ job.ver # "8" =>
            /\ Cardinality(BuildCommands) <= 1
            /\ up_pc # "idle" => Cardinality(BuildCommands) = 1

C30_Witness ==
    /\ InBaseBuild /\ SecondPass
    /\ \E q, p \in 1..Len(log) :
        /\ q < p
        /\ IsBuildCmd(log[q], "build") /\ log[q].ok
        /\ IsBuildCmd(log[p], "build_2") /\ log[p].ok
    /\ up_pc = "sha"
    /\ up_files = <<"build_log", "image", "build_log_2", "image_uefi">>

----------------------------------------------------------------------------
(* Claims about the test instances of the test handlers (checked under     *)
(* Spec).                                                                  *)

\* The handler of the run has ended: it returned to main or it raised.
HandlerExited == m_pc \in {"raised", "dispatched", "returned"}
InTestHandler == handler.method \in {"test_aws_stage", "test_openstack"}

\* The terraform destroy command that matches a terraform apply command.
DestroyOf(cmd) ==
    CASE cmd = "terraform_apply" -> "terraform_destroy"
      [] cmd = "upload_image_terraform_apply" -> "upload_image_terraform_destroy"
      [] OTHER -> ""

\* C31: in test_aws_stage and in both test_openstack handlers, when the
\* handler has ended, every terraform apply that succeeded is followed in
\* the history by the execution of the matching terraform destroy, whatever
\* failed in between.
C31_DestroyOnEveryExit ==
    (HandlerExited /\ InTestHandler) =>
        \A p \in 1..Len(log) :
            (log[p].op = "exec" /\ DestroyOf(log[p].cmd) # "" /\ log[p].ok) =>
                \E q \in (p + 1)..Len(log) :
                    log[q].op = "exec" /\ log[q].cmd = DestroyOf(log[p].cmd)

----------------------------------------------------------------------------
(* Claims about the changelog queries of the report (checked under         *)
(* SpecReport).                                                            *)

\* C32: a changelog is queried only for a package that has an added and a
\* removed line in the diff (an upgrade pair); none is queried for a package
\* that is only added or only removed.
C32_ChangelogOnlyForPairs ==
    \A p \in 1..Len(log) :
        log[p].cmd = "rpm_changelog" =>
            HasLine("+", log[p].file) /\ HasLine("-", log[p].file)

----------------------------------------------------------------------------
(* Claims about the fallback of download_qcow (checked under               *)
(* SpecDownload).                                                          *)

IsSyncOk(e) == e.op = "s3_sync" /\ e.ok

\* C33: when the five download attempts failed and the fallback sync
\* succeeded, download_qcow returns the working directory and does not
\* raise, and no download attempt follows the fallback.
C33_FallbackSuccessReturns ==
    /\ (DlEnded /\ FailedDownloads = Attempts /\ Count(IsSyncOk) >= 1)
            => dl_pc = "returned"
    /\ \A p, q \in 1..Len(log) :
            (IsSyncOk(log[p]) /\ p < q) => ~IsDownload(log[q])

C33_Witness ==
    /\ dl_pc = "returned"
    /\ FailedDownloads = Attempts
    /\ Count(IsSyncOk) = 1
    /\ work_dir

----------------------------------------------------------------------------
(* Claims about the release handlers (checked under Spec).                 *)

\* download_qcow of this run created the working directory.
CreatedWorkDir == \E k \in 1..Len(log) : log[k].op = "mkdir" /\ log[k].ok

\* C34: when release_and_sign_stage has ended, by returning or by raising,
\* the working directory that its download_qcow created is gone.
C34_WorkDirRemovedOnEveryExit ==
    (HandlerExited /\ handler.method = "release_and_sign_stage" /\ CreatedWorkDir)
        => ~work_dir

\* The steps of koji_release the claim orders.
KojiSteps ==
    <<"awk_checksum", "sign_request", "asc_content", "upload_signature", "rsync",
      "systemctl_start">>
InRelease == handler.method = "release_and_sign_stage"
Ran(cmd) == \E k \in 1..Len(log) : log[k].cmd = cmd
Failed(cmd) == \E k \in 1..Len(log) : log[k].cmd = cmd /\ ~log[k].ok

\* C35: in koji_release the checksum manifest is read, the signing request
\* is made, the signature is taken from the response and uploaded, the rsync
\* to the deploy host runs and the sync service of the deploy host is
\* started, in this order, each step only after the one before it succeeded;
\* when the response has no signature or the upload of the signature fails,
\* the rsync and the start of the sync service are never executed.
C35_KojiStepsInOrder ==
    InRelease =>
        /\ \A n \in 2..Len(KojiSteps) :
            \A q \in 1..Len(log) :
                log[q].cmd = KojiSteps[n] =>
                    \E p \in 1..(q - 1) : log[p].cmd = KojiSteps[n - 1] /\ log[p].ok
        /\ \A n \in 1..Len(KojiSteps) :
            Cardinality({q \in 1..Len(log) : log[q].cmd = KojiSteps[n]}) <= 1
        /\ (Failed("asc_content") \/ Failed("upload_signature"))
                => ~Ran("rsync") /\ ~Ran("systemctl_start")

C35_Witness ==
    /\ InRelease /\ m_pc = "raised"
    /\ Failed("upload_signature")
    /\ Ran("awk_checksum") /\ Ran("sign_request") /\ Ran("asc_content")
    /\ ~Ran("rsync") /\ ~Ran("systemctl_start")
    /\ ~work_dir

\* The sessions the handler running has opened and not closed.
OwnOpenSessions == {v \in SessionVars : conn[v] = "open" /\ opener[v] = handler}

\* C36: at every point of a run of main at most one session that the
\* current handler opened is open; in koji_release the session to the koji
\* host is no longer open when the session to the deploy host is.
C36_AtMostOneOwnSession ==
    m_pc \in {"running", "raised", "dispatched", "returned"} =>
        /\ Cardinality(OwnOpenSessions) <= 1
        /\ (InRelease /\ conn["ssh_deploy"] = "open") => conn["ssh_koji"] # "open"

C36_Witness ==
    /\ m_pc = "running" /\ InRelease
    /\ conn["ssh_deploy"] = "open"
    /\ conn["ssh_koji"] = "closed"
    /\ OwnOpenSessions = {"ssh_deploy"}

----------------------------------------------------------------------------
(* Claims about the terraform directory (checked under Spec).              *)

InDestroy == handler.method = "teardown_stage"
\* The handler is at an instruction of the kind op.
At(op) == m_pc = "running" /\ Running /\ Cur.op = op
IsTerraform(e) ==
    e.cmd \in {"terraform_init", "terraform_fmt", "terraform_validate",
               "terraform_apply", "terraform_destroy"}
\* The step appends the result ok of the terraform destroy to the history.
DestroyEnds(ok) ==
    /\ Len(log') = Len(log) + 1
    /\ log'[Len(log')].cmd = "terraform_destroy" /\ log'[Len(log')].ok = ok

\* C37: for aarch64 the terraform directory appears only by the copy of
\* create_aws_instance and disappears only in teardown_stage after a
\* successful destroy; teardown_stage returns with the directory removed, a
\* failed destroy raises and leaves it, and create_aws_instance called while
\* it exists raises before any terraform command; for another architecture
\* teardown_stage leaves the directory as it is.
C37_Step ==
    /\ job.arch = "aarch64" =>
        /\ (~tf_dir /\ tf_dir') => (At("copytree") /\ handler.method = "init_stage")
        /\ (tf_dir /\ ~tf_dir') =>
                /\ At("rmtree") /\ InDestroy
                /\ log[Len(log)].cmd = "terraform_destroy" /\ log[Len(log)].ok
        /\ (InDestroy /\ m_pc = "running" /\ m_pc' = "dispatched") => ~tf_dir'
        /\ (InDestroy /\ DestroyEnds(FALSE)) => (tf_dir' /\ m_pc' = "raised")
        /\ (At("copytree") /\ tf_dir) =>
                /\ m_pc' = "raised" /\ tf_dir'
                /\ \A k \in 1..Len(log') : ~IsTerraform(log'[k])
    /\ (job.arch # "aarch64" /\ InDestroy) => tf_dir' = tf_dir

C37_DirBetweenInitAndDestroy == [][C37_Step]_vars

C37_Witness ==
    /\ job.arch = "aarch64" /\ InDestroy /\ m_pc = "returned"
    /\ ~tf_dir
    /\ \E k \in 1..Len(log) : log[k].cmd = "terraform_destroy" /\ log[k].ok
    /\ \E k \in 1..Len(log) : log[k].op = "rmtree"

----------------------------------------------------------------------------
(* Claims about the dispatch of main (checked under Spec).                 *)

\* C38: for every hypervisor the command line accepts, every handler the
\* dispatch of main is about to call on the backend is defined on the class
\* of the backend that get_hypervisor returned.
C38_SelectedHandlerIsDefined ==
    (m_pc = "dispatched" /\ job.hypervisor \in HypervisorChoices) =>
        \A k \in 1..Len(calls) :
            calls[k] \notin MainFunctions => HasAttr(Cls, calls[k])

\* The calls of create_new_branch that create the branch, and the remote
\* commands of create_docker_branch.
BranchCmds == {"github_get_refs", "github_post_ref"}
CommitCmds == {"git_diff", "untar_rootfs", "rpm_changelog", "git_checkout",
               "git_commit_push"}
\* The positions of the history where the list of branches was fetched
\* (once in build_docker_stage, once in create_new_branch).
BranchListings == {p \in 1..Len(log) : log[p].cmd = "get_git_branches" /\ log[p].ok}

\* C39: in the Docker build flow the branch is created only after
\* build_docker_stage returned (its session closed), and the commands of
\* create_docker_branch only run after create_new_branch listed the
\* branches; when build_docker_stage raises, no branch is created and
\* nothing is committed or pushed; the branch is created only while no
\* branch of that name exists, at most once.
C39_DockerFlowInOrder ==
    /\ \A q \in 1..Len(log) :
        /\ log[q].cmd \in BranchCmds =>
                \E p \in 1..(q - 1) : log[p].op = "close" /\ log[p].ok
        /\ log[q].cmd \in CommitCmds =>
                \E p1, p2 \in BranchListings :
                    /\ p1 < p2 /\ p2 < q
                    /\ \E c \in (p1 + 1)..(p2 - 1) : log[c].op = "close" /\ log[c].ok
    /\ (handler.method = "build_docker_stage" /\ m_pc = "raised") =>
            \A q \in 1..Len(log) : log[q].cmd \notin BranchCmds \cup CommitCmds
    /\ (m_pc = "running" /\ Running /\ Cur.op = "create_branch") => ~branch
    /\ Cardinality({q \in 1..Len(log) : log[q].cmd = "github_post_ref"}) <= 1

C39_Witness ==
    /\ handler.method = "create_docker_branch" /\ m_pc = "returned"
    /\ \E q \in 1..Len(log) : log[q].cmd = "github_post_ref" /\ log[q].ok
    /\ log[Len(log)].cmd = "git_commit_push" /\ log[Len(log)].ok
    /\ branch

====
